---- MODULE Spec2Model ----
(***************************************************************************)
(* Model of the analysis scripts of OGGM_CR2_Chile.                        *)
(*                                                                         *)
(*   SpecCmp : 03_Multi_Dataset_Comparison_DA1.py, the multi-dataset       *)
(*             aggregation (record and table loading, glacier variability, *)
(*             ensemble statistics, report, biases, figures).              *)
(*   SpecVal : 02_Andes_2000_2019_CR2_figura_2023.py, one iteration of the *)
(*             cluster loop (area table, per-glacier mass balance,         *)
(*             area-weighted reductions, geodetic comparison, the record   *)
(*             of the cluster and its reading by the aggregation).         *)
(*   SpecStd : np.std(smb_means, ddof=1) of the aggregation, applied to    *)
(*             arrays of up to three values.                               *)
(*   SpecGeo : the cluster iteration of SpecVal with a geodetic table that *)
(*             may lack the entry of a simulated glacier.                  *)
(*   SpecBatch : oggm_cr2met_chile.py, batch_process_all_glaciers.         *)
(*   SpecDiag : diagnostic_check.py.                                       *)
(*   SpecClu : 00_Diagnostic_Check_Clusters.py.                            *)
(*   SpecCru : 01a_Andes_2000_2019_CRU_2023.py, the cluster loop.          *)
(*                                                                         *)
(* Floating-point values are modelled as exact rationals [k, n, d] with    *)
(* the IEEE specials the scripts can produce (NaN, +/-inf); a square root  *)
(* that is not rational is kept symbolically as k = "sqrt" (the            *)
(* non-negative root of n/d).                                              *)
(***************************************************************************)
EXTENDS Integers, Sequences, FiniteSets, TLC

VARIABLES
    \* ---- 03_Multi_Dataset_Comparison_DA1.py
    pc,                  \* position in the comparison script
    files,               \* the three comparacion_gmb_smb_DA1_.csv files on disk
    cr2_data, era5_data, cru_data,
    gmb_value, gmb_error,
    smb_means,           \* <<cr2_smb_mean, era5_smb_mean, cru_smb_mean>>
    n_glaciers,          \* <<cr2_n, era5_n, cru_n>>
    ensemble_mean, climate_uncertainty, smb_range,
    biases,              \* BIASES block of summary_text: per dataset [abs, pct]
    error,               \* the exception that ended the script, if any
    absent_inputs,       \* the input files that do not exist
    mb_files,            \* the three mb.csv files on disk
    mb_tables,           \* <<cr2_mb, era5_mb, cru_mb>>
    glacier_means,       \* <<cr2_glacier_means, era5_..., cru_...>>
    smb_stds,            \* <<cr2_smb_std, era5_smb_std, cru_smb_std>>
    report,              \* the printed block of lines 88-100
    uncertainty_vals,    \* panel E
    breakdown,           \* UNCERTAINTY BREAKDOWN block of summary_text
    figures,             \* the figure files written
    \* ---- 02_Andes_2000_2019_CR2_figura_2023.py
    vpc,                 \* position in the cluster iteration
    rgi_id, area,        \* zonax['rgi_id'], zonax['area'] at time index 10
    ID_area,             \* rows [id, area] after dropna
    max_n, ID_data, ID_rgi_id,
    gdirs, lista,        \* glacier directories and the mass-balance models
    mb_per_glacier,      \* row i, year column y: get_specific_mb
    mb_per_glacier_id,   \* [columns, rgi_id] : the table written to mb.csv
    areas,               \* area weights in km2
    mb_mean,             \* per-year area-weighted mean (mb_promedio.csv)
    mb_sim,              \* [columns, mb_sim, rgiid, area_sim, mb_mm_pon]
    smb_value,
    geodetic,            \* utils.get_geodetic_mb_dataframe()
    rgi_area, gdf_sel,   \* area and identifiers of the cluster in datos_rgi
    gmb_value_02,        \* gmb_value of this script
    gmb_error_02,        \* gmb_error of this script
    comp_gmb_smb,        \* the list of (value, label) tuples
    verror,
    \* ---- np.std(smb_means, ddof=1) applied to an array of any length
    std_pc, std_in, std_out,
    \* ---- oggm_cr2met_chile.py: batch_process_all_glaciers
    bpc,                 \* position in batch_process_all_glaciers
    rgi_df,              \* the RGI region file: rows [RGIId, CenLon, CenLat]
    chile_glaciers,
    rgi_ids,
    batch_gdirs,         \* gdirs of batch_process_all_glaciers
    batch_idx,           \* glaciers of the loop of line 250 already handled
    successful_gdirs,
    returned,            \* the value returned by batch_process_all_glaciers
    passed,              \* arguments of the calls of process_glacier_with_cr2met
    printed_errors,      \* glaciers of the "Error processing" lines
    task_log,            \* glaciers with an error entry in their task log
    \* ---- diagnostic_check.py
    dpc,                 \* position in the script
    diag_gdirs,          \* gdirs of diagnostic_check.py
    diag_i,              \* glaciers of the loop of line 55 already visited
    status,
    failed_glaciers, successful_glaciers,
    check_raised,        \* glaciers of the "Error checking" lines
    summary,             \* the percentages of the DIAGNOSTIC SUMMARY block
    recommendation,      \* the branch of the RECOMMENDATIONS block printed
    derror,              \* the exception that ended the script, if any
    \* ---- 00_Diagnostic_Check_Clusters.py
    cpc,                 \* position in the script
    cluster_k,           \* clusters of the list whose iteration has ended
    visited,             \* the CLUSTER: lines printed
    cluster_n_glaciers,  \* n_glaciers of the current cluster
    output_dir_exists,   \* os.path.exists(output_dir), once evaluated
    simulated_pct,       \* n_simulated/n_glaciers*100, once evaluated
    init_result,         \* outcome of the try block of lines 75-103
    n_caught,            \* "Error reading" / "Error initializing" lines
    cerror,              \* the exception that ended the script, if any
    \* ---- 01a_Andes_2000_2019_CRU_2023.py
    rpc,                 \* position in the script
    list_region,
    datos_param,         \* LR_Pf.csv: rows [Cluster, LR, Pf]
    zona_k,              \* clusters of list_region already processed
    stage_k,             \* workflow stages of the current cluster already run
    PARAMS,              \* cfg.PARAMS: temp_default_gradient, prcp_scaling_factor
    executed,            \* the workflow stages run, with the parameters in force
    rerror               \* the exception that ended the script, if any

cmpVars == <<pc, files, cr2_data, era5_data, cru_data, gmb_value, gmb_error,
             smb_means, n_glaciers, ensemble_mean, climate_uncertainty,
             smb_range, biases, error, absent_inputs, mb_files, mb_tables,
             glacier_means, smb_stds, report, uncertainty_vals, breakdown,
             figures>>

valVars == <<vpc, rgi_id, area, ID_area, max_n, ID_data, ID_rgi_id, gdirs,
             lista, mb_per_glacier, mb_per_glacier_id, areas, mb_mean, mb_sim,
             smb_value, geodetic, rgi_area, gdf_sel, gmb_value_02,
             gmb_error_02, comp_gmb_smb, verror>>

stdVars == <<std_pc, std_in, std_out>>

batchVars == <<bpc, rgi_df, chile_glaciers, rgi_ids, batch_gdirs, batch_idx,
               successful_gdirs, returned, passed, printed_errors, task_log>>

diagVars == <<dpc, diag_gdirs, diag_i, status, failed_glaciers,
              successful_glaciers, check_raised, summary, recommendation,
              derror>>

cluVars == <<cpc, cluster_k, visited, cluster_n_glaciers, output_dir_exists,
             simulated_pct, init_result, n_caught, cerror>>

cruVars == <<rpc, list_region, datos_param, zona_k, stage_k, PARAMS,
             executed, rerror>>

restVars == <<batchVars, diagVars, cluVars, cruVars>>

vars == <<cmpVars, valVars, stdVars, restVars>>

-----------------------------------------------------------------------------
(* Floating-point values                                                   *)

Abs(x) == IF x < 0 THEN -x ELSE x

RECURSIVE GCD(_, _)
GCD(a, b) == IF b = 0 THEN a ELSE GCD(b, a % b)

\* the rational n/d in lowest terms with a positive denominator
Norm(n, d) ==
    LET g == GCD(Abs(n), Abs(d))
        s == IF d < 0 THEN -1 ELSE 1
    IN  [k |-> "num", n |-> s * (n \div g), d |-> s * (d \div g)]

F(i)    == [k |-> "num", n |-> i, d |-> 1]
NaN     == [k |-> "nan", n |-> 0, d |-> 1]
PosInf  == [k |-> "inf", n |-> 1, d |-> 1]
NegInf  == [k |-> "inf", n |-> -1, d |-> 1]
None    == [k |-> "none", n |-> 0, d |-> 1]
\* a raised exception, as the value of the expression that raised it
Raised(name) == [k |-> name, n |-> 0, d |-> 1]

IsNum(x)  == x.k = "num"
IsNaN(x)  == x.k = "nan"
IsInf(x)  == x.k = "inf"
IsReal(x) == x.k \in {"num", "sqrt"}

Sign(i) == IF i < 0 THEN -1 ELSE IF i > 0 THEN 1 ELSE 0

\* x + y, x - y, x * y on floats (IEEE: NaN is absorbing)
FAdd(x, y) ==
    IF IsNaN(x) \/ IsNaN(y) THEN NaN
    ELSE IF IsInf(x) /\ IsInf(y) THEN (IF x.n = y.n THEN x ELSE NaN)
    ELSE IF IsInf(x) THEN x
    ELSE IF IsInf(y) THEN y
    ELSE Norm(x.n * y.d + y.n * x.d, x.d * y.d)

FNeg(x) == IF IsNum(x) \/ IsInf(x) THEN [x EXCEPT !.n = -x.n] ELSE x

FSub(x, y) == FAdd(x, FNeg(y))

FMul(x, y) ==
    IF IsNaN(x) \/ IsNaN(y) THEN NaN
    ELSE IF IsInf(x) \/ IsInf(y)
         THEN (IF x.n = 0 \/ y.n = 0 THEN NaN
               ELSE IF Sign(x.n) = Sign(y.n) THEN PosInf ELSE NegInf)
    ELSE Norm(x.n * y.n, x.d * y.d)

\* numpy / pandas true division: x / 0 is +/-inf or NaN, never an exception
NpTrueDiv(x, y) ==
    IF IsNaN(x) \/ IsNaN(y) THEN NaN
    ELSE IF IsInf(x) THEN (IF IsInf(y) THEN NaN
                           ELSE IF Sign(y.n) < 0 THEN FNeg(x) ELSE x)
    ELSE IF IsInf(y) THEN F(0)
    ELSE IF y.n = 0 THEN (IF x.n = 0 THEN NaN
                          ELSE IF x.n > 0 THEN PosInf ELSE NegInf)
    ELSE Norm(x.n * y.d, x.d * y.n)

\* faulty variant: the division done on numpy scalars: no exception
PyTrueDivNoRaise(x, y) == NpTrueDiv(x, y)

\* Python float / float: a zero divisor raises ZeroDivisionError
PyTrueDiv(x, y) ==
    IF IsNum(y) /\ y.n = 0 THEN Raised("ZeroDivisionError")
    ELSE NpTrueDiv(x, y)

FLess(x, y) == IsNum(x) /\ IsNum(y) /\ x.n * y.d < y.n * x.d

RECURSIVE ISqrtIn(_, _, _)
\* the largest r in lo..hi with r * r <= m
ISqrtIn(m, lo, hi) ==
    IF lo >= hi THEN lo
    ELSE LET mid == (lo + hi + 1) \div 2
         IN  IF mid * mid <= m THEN ISqrtIn(m, mid, hi)
             ELSE ISqrtIn(m, lo, mid - 1)

\* integer square root of 0 <= m < 2^31
ISqrt(m) == ISqrtIn(m, 0, 46340)

IsSquare(m) == ISqrt(m) * ISqrt(m) = m

\* np.sqrt of a non-negative float
FSqrt(x) ==
    IF IsNaN(x) THEN NaN
    ELSE IF IsInf(x) THEN (IF x.n > 0 THEN PosInf ELSE NaN)
    ELSE IF x.n < 0 THEN NaN
    ELSE IF IsSquare(x.n) /\ IsSquare(x.d)
         THEN [k |-> "num", n |-> ISqrt(x.n), d |-> ISqrt(x.d)]
    ELSE [k |-> "sqrt", n |-> x.n, d |-> x.d]

\* x * x, also of a symbolic root
FSquare(x) ==
    IF x.k = "sqrt" THEN [k |-> "num", n |-> x.n, d |-> x.d] ELSE FMul(x, x)

\* floor(n / d) for d > 0
FloorDiv(n, d) == IF n >= 0 THEN n \div d ELSE -((-n + d - 1) \div d)

\* the nearest integer to n/d, ties to even (d > 0)
RoundHalfEven(n, d) ==
    LET f == FloorDiv(n, d)
        r2 == 2 * (n - f * d)
    IN  IF r2 < d THEN f
        ELSE IF r2 > d THEN f + 1
        ELSE IF f % 2 = 0 THEN f ELSE f + 1

\* format(x, '.1f'): the number of tenths printed; used on finite values
Fmt1(x) ==
    IF x.k = "sqrt"
    THEN (ISqrt(FloorDiv(400 * x.n, x.d)) + 1) \div 2
    ELSE RoundHalfEven(10 * x.n, x.d)

-----------------------------------------------------------------------------
(* Sequences of floats                                                     *)

RECURSIVE SumTo(_, _)
\* s[1] + ... + s[n], left to right
SumTo(s, n) == IF n = 0 THEN F(0) ELSE FAdd(SumTo(s, n - 1), s[n])

\* NaN-propagating sum (np.sum, np.add.reduce)
SeqSum(s) == SumTo(s, Len(s))

\* np.mean
NpMean(s) == NpTrueDiv(SeqSum(s), F(Len(s)))

\* np.std(s, ddof): sqrt(sum(|x - mean|^2) / max(N - ddof, 0))
NpStd(s, ddof) ==
    LET m   == NpMean(s)
        dev == [i \in 1..Len(s) |-> FSquare(FSub(s[i], m))]
        rcount == IF Len(s) - ddof > 0 THEN Len(s) - ddof ELSE 0
    IN  FSqrt(NpTrueDiv(SeqSum(dev), F(rcount)))

RECURSIVE SeqMax(_)
\* np.max: NaN if any element is NaN
SeqMax(s) ==
    IF Len(s) = 1 THEN s[1]
    ELSE LET r == SeqMax(SubSeq(s, 1, Len(s) - 1))
         IN  IF IsNaN(r) \/ IsNaN(s[Len(s)]) THEN NaN
             ELSE IF FLess(r, s[Len(s)]) THEN s[Len(s)] ELSE r

\* faulty variant: the first element taken for the smallest
SeqMinFirst(s) == s[1]

RECURSIVE SeqMin(_)
\* np.min: NaN if any element is NaN
SeqMin(s) ==
    IF Len(s) = 1 THEN s[1]
    ELSE LET r == SeqMin(SubSeq(s, 1, Len(s) - 1))
         IN  IF IsNaN(r) \/ IsNaN(s[Len(s)]) THEN NaN
             ELSE IF FLess(s[Len(s)], r) THEN s[Len(s)] ELSE r

-----------------------------------------------------------------------------
(* Tables of per-glacier mass balance (mb.csv)                             *)

\* years = np.arange(2000, 2022)
NYears == 22
YearColumns == [i \in 1..NYears |-> ToString(i - 1)]
IdColumn == "rgi_id"

\* Series.sum(): NaN entries are skipped (skipna=True), 0 for none
PandasSum(s) == SeqSum(SelectSeq(s, LAMBDA x : ~IsNaN(x)))

\* DataFrame.mean(axis=1) over the columns at positions cols: NaN skipped
PandasRowMean(row, cols) ==
    LET vals == SelectSeq([i \in 1..Len(cols) |-> row[cols[i]]],
                          LAMBDA x : ~IsNaN(x))
    IN  IF vals = <<>> THEN NaN ELSE NpTrueDiv(SeqSum(vals), F(Len(vals)))

-----------------------------------------------------------------------------
(* 03_Multi_Dataset_Comparison_DA1.py                                      *)

Datasets == <<"CR2MET", "ERA5", "CRU">>

\* a CSV cell of column 0 as pandas hands it to float(): a number, an empty
\* cell (read as NaN) or text that float() cannot parse
NumCell(v) == [t |-> "num", v |-> v]
EmptyCell  == [t |-> "empty", v |-> NaN]
TextCell   == [t |-> "text", v |-> NaN]

Row(value, label) == [value |-> value, label |-> label]

\* DataFrame.to_csv(index=False) of a two-column frame writes the column
\* names 0,1 as the first line; read back with header=None it is row 0
HeaderRow == Row(NumCell(F(0)), "1")

\* faulty variant: unparseable text coerced to NaN instead of raising
PyFloatCoerce(cell) == IF cell.t = "num" THEN cell.v ELSE NaN

\* float(row[0]); ValueError for unparseable text
PyFloat(cell) ==
    IF cell.t = "num" THEN cell.v
    ELSE IF cell.t = "empty" THEN NaN
    ELSE Raised("ValueError")

RECURSIVE ReadRows(_, _)
\* the loop of read_comparison_csv over rows idx..Len(df) (idx is 1-based here)
ReadRows(df, n) ==
    IF n = 0 THEN [l \in {} |-> NaN]
    ELSE LET data_dict == ReadRows(df, n - 1)
             row == df[n]
             v == PyFloat(row.value)
         IN  IF n = 1 THEN data_dict                     \* idx == 0: header
             ELSE IF v.k = "ValueError" THEN data_dict   \* except: pass
             ELSE [l \in DOMAIN data_dict \cup {row.label} |->
                      IF l = row.label THEN v ELSE data_dict[l]]

read_comparison_csv(df) == ReadRows(df, Len(df))

\* d[key]: KeyError if the label is absent
GetItem(d, key) == IF key \in DOMAIN d THEN d[key] ELSE Raised("KeyError")

\* the subscript expressions of lines 44-53, in program order
Lookups == << <<1, "GMB">>, <<1, "GMB_error">>, <<1, "SMB">>, <<2, "SMB">>,
              <<3, "SMB">>, <<1, "n_g_oggm">>, <<2, "n_g_oggm">>,
              <<3, "n_g_oggm">> >>

LookupValue(i) ==
    LET d == IF Lookups[i][1] = 1 THEN cr2_data
             ELSE IF Lookups[i][1] = 2 THEN era5_data ELSE cru_data
    IN  GetItem(d, Lookups[i][2])

\* index of the first subscript that raises, Len + 1 if none does
FirstKeyError ==
    LET bad == {i \in 1..Len(Lookups) : LookupValue(i).k = "KeyError"}
    IN  IF bad = {} THEN Len(Lookups) + 1
        ELSE CHOOSE i \in bad : \A j \in bad : i <= j

\* the value assigned by the i-th statement, None if the script stopped before
Assigned(i) == IF i < FirstKeyError THEN LookupValue(i) ELSE None

\* smb - gmb and (smb - gmb)/gmb*100 of one line of the BIASES block
BiasAbs(smb, gmb) == FSub(smb, gmb)
\* faulty variant: percentage taken of the dataset SMB instead of GMB
BiasPctOfSmb(smb, gmb) ==
    LET q == PyTrueDiv(FSub(smb, gmb), smb)
    IN  IF q.k = "ZeroDivisionError" THEN q ELSE FMul(q, F(100))

BiasPct(smb, gmb) ==
    LET q == PyTrueDiv(FSub(smb, gmb), gmb)
    IN  IF q.k = "ZeroDivisionError" THEN q ELSE FMul(q, F(100))

NoError == [type |-> "none", arg |-> ""]

\* ---- inputs: the three record files as the validation script writes them
MaxExtra == 1
SMBValues == {-1100, -1050, -1010, -1000, -950} \cup (0..MaxExtra)
GMBValues == {-1000, 0, 800}
RecordFields == <<"GMB", "GMB_error", "SMB", "area_rgi", "area_oggm",
                  "por_area_oggm", "n_g_rgi", "n_g_oggm">>
CheckedFields == {"GMB", "GMB_error", "SMB", "area_oggm", "n_g_oggm"}
DefectKinds == {"absent", "empty", "text"}
NoDefect == [ds |-> 0, field |-> "", kind |-> "none"]
Defects == {NoDefect} \cup
           [ds : 1..3, field : CheckedFields, kind : DefectKinds]

\* the end-to-end scenario of the specification (GMB = -1000, error 150)
ScenarioSMB == <<-1100, -950, -1010>>
ScenarioGMB == <<-1000, -1000, -1000>>

FieldValue(label, ds, smb, gmb) ==
    CASE label = "GMB"           -> F(gmb)
      [] label = "GMB_error"     -> F(150)
      [] label = "SMB"           -> F(smb)
      [] label = "area_rgi"      -> F(12)
      [] label = "area_oggm"     -> F(9)
      [] label = "por_area_oggm" -> F(75)
      [] label = "n_g_rgi"       -> F(4)
      [] label = "n_g_oggm"      -> F(ds + 1)

\* the file of dataset ds, with the defect applied if it is in this file
RecordFile(ds, smb, gmb, defect) ==
    LET hit(l) == defect.ds = ds /\ defect.field = l
        kept == SelectSeq(RecordFields,
                          LAMBDA l : ~(hit(l) /\ defect.kind = "absent"))
        cell(l) == IF hit(l) /\ defect.kind = "empty" THEN EmptyCell
                   ELSE IF hit(l) /\ defect.kind = "text" THEN TextCell
                   ELSE NumCell(FieldValue(l, ds, smb, gmb))
    IN  <<HeaderRow>> \o [i \in 1..Len(kept) |-> Row(cell(kept[i]), kept[i])]

\* ---- inputs: the three mb.csv tables (one row per glacier, one column per
\* simulated year, then rgi_id)
\* a row whose years alternate between c - d and c + d: its mean is c
SeriesRow(c, d) ==
    [y \in 1..NYears |-> IF y % 2 = 1 THEN F(c - d) ELSE F(c + d)]
\* the row r with the value of year column y missing
WithGap(r, y) == [r EXCEPT ![y] = NaN]
NaNRow == [y \in 1..NYears |-> NaN]

\* the tables are chosen so that the spread of the glacier means is rational
SeriesDefault == <<SeriesRow(-1200, 0), SeriesRow(-1000, 0), SeriesRow(-800, 0)>>
SeriesTables ==
    { SeriesDefault,
      <<SeriesRow(-1300, 500), WithGap(SeriesRow(-1000, 0), 5),
        SeriesRow(-700, 100)>>,
      <<SeriesRow(-1400, 200), SeriesRow(-1000, 0), SeriesRow(-1000, 0),
        SeriesRow(-1000, 0)>>,
      <<NaNRow>> \o SeriesDefault,
      <<SeriesRow(-900, 100)>>,
      <<>> }

MbFile(rows) == [columns |-> YearColumns \o <<IdColumn>>,
                 mb |-> rows,
                 rgi_id |-> [i \in 1..Len(rows) |-> i]]

\* the six input files: 1..3 the records, 4..6 the mb.csv tables
Inputs == 1..6
RecordNames == <<"CR2MET record", "ERA5 record", "CRU record">>

\* faulty variant: a missing file is read as if it were there
PdReadCsvIgnoreMissing(i, content) == [error |-> "none", df |-> content]

\* pd.read_csv(path): FileNotFoundError if the file does not exist
PdReadCsv(i, content) ==
    IF i \in absent_inputs THEN [error |-> "FileNotFoundError", df |-> content]
    ELSE [error |-> "none", df |-> content]

\* select_dtypes(include=[np.number]): the year columns; a table without rows
\* has object columns only
SelectNumeric(df) ==
    IF Len(df.mb) = 0 THEN [columns |-> <<>>, mb |-> <<>>]
    ELSE [columns |-> YearColumns, mb |-> df.mb]

\* faulty variant: one step only, the last year of every glacier in place
\* of its mean over the years
GlacierLastYears(numeric) ==
    [g \in 1..Len(numeric.mb) |->
        IF Len(numeric.columns) = 0 THEN NaN
        ELSE numeric.mb[g][Len(numeric.columns)]]

\* numeric.mean(axis=1): the mean across the year columns of each glacier
GlacierMeans(numeric) ==
    [g \in 1..Len(numeric.mb) |->
        PandasRowMean(numeric.mb[g], [i \in 1..Len(numeric.columns) |-> i])]

\* Series.std(): sample standard deviation (ddof=1) of the entries that are
\* not NaN; NaN if fewer than two are left
PandasStd(s) ==
    LET valid == SelectSeq(s, LAMBDA x : ~IsNaN(x))
    IN  IF Len(valid) < 2 THEN NaN ELSE NpStd(valid, 1)

\* x < y on finite floats, one or both possibly a symbolic root
RealLess(x, y) ==
    IF ~(IsReal(x) /\ IsReal(y)) THEN FALSE
    ELSE IF IsNum(x) /\ IsNum(y) THEN FLess(x, y)
    ELSE IF IsNum(x) THEN x.n < 0 \/ x.n * x.n * y.d < y.n * x.d * x.d
    ELSE IF IsNum(y) THEN y.n > 0 /\ x.n * y.d * y.d < y.n * y.n * x.d
    ELSE x.n * y.d < y.n * x.d

RECURSIVE PyMax(_, _)
\* max(list[1..n]) of Python: the first element, replaced by each later one
\* that compares greater (a NaN never does)
PyMax(s, n) ==
    IF n = 1 THEN s[1]
    ELSE LET m == PyMax(s, n - 1)
         IN  IF RealLess(m, s[n]) THEN s[n] ELSE m

\* faulty variant: a total of the components reported next to them
UncertaintyValsWithTotal(obs, stds, between) ==
    <<obs, NpMean(stds), between, FAdd(obs, NpMean(stds))>>

\* [gmb_error, np.mean(smb_stds), climate_uncertainty]
UncertaintyVals(obs, stds, between) == <<obs, NpMean(stds), between>>

NoTable == [columns |-> <<>>, mb |-> <<>>, rgi_id |-> <<>>]
NoReport == [observed |-> <<None, None>>,
             datasets |-> <<>>,
             within |-> None, between |-> None,
             ensemble |-> <<None, None>>]

EmptyDict == [l \in {} |-> NaN]

StdIdle == std_pc = "idle" /\ std_in = <<>> /\ std_out = None

BatchIdle ==
    /\ bpc = "idle" /\ rgi_df = <<>> /\ chile_glaciers = <<>>
    /\ rgi_ids = <<>> /\ batch_gdirs = <<>> /\ batch_idx = 0
    /\ successful_gdirs = <<>> /\ returned = <<>> /\ passed = <<>>
    /\ printed_errors = {} /\ task_log = {}

\* lines 41-49
StatusZero ==
    [has_climate |-> 0, has_calibration |-> 0, has_inversion |-> 0,
     has_model_flowlines |-> 0, has_diagnostics |-> 0,
     has_fl_diagnostics |-> 0, has_geometry |-> 0]

DiagIdle ==
    /\ dpc = "idle" /\ diag_gdirs = <<>> /\ diag_i = 0
    /\ status = StatusZero
    /\ failed_glaciers = <<>> /\ successful_glaciers = <<>>
    /\ check_raised = {} /\ summary = <<>> /\ recommendation = ""
    /\ derror = NoError

CluIdle ==
    /\ cpc = "idle" /\ cluster_k = 0 /\ visited = <<>>
    /\ cluster_n_glaciers = 0 /\ output_dir_exists = "unknown"
    /\ simulated_pct = None /\ init_result = "none" /\ n_caught = 0
    /\ cerror = NoError

\* the values of cfg.PARAMS after cfg.initialize, in 1e-4 K/m and in tenths
DefaultParams == [temp_default_gradient |-> -65, prcp_scaling_factor |-> 25]

CruIdle ==
    /\ rpc = "idle" /\ list_region = <<>> /\ datos_param = <<>>
    /\ zona_k = 0 /\ stage_k = 0 /\ PARAMS = DefaultParams
    /\ executed = <<>> /\ rerror = NoError

RestIdle == BatchIdle /\ DiagIdle /\ CluIdle /\ CruIdle

ValIdle ==
    /\ vpc = "idle" /\ rgi_id = <<>> /\ area = <<>> /\ ID_area = <<>>
    /\ max_n = 0 /\ ID_data = <<>> /\ ID_rgi_id = <<>> /\ gdirs = <<>>
    /\ lista = <<>> /\ mb_per_glacier = <<>>
    /\ mb_per_glacier_id = [columns |-> <<>>, rgi_id |-> <<>>]
    /\ areas = <<>> /\ mb_mean = <<>>
    /\ mb_sim = [columns |-> <<>>, mb_sim |-> <<>>, rgiid |-> <<>>,
                 area_sim |-> <<>>, mb_mm_pon |-> <<>>]
    /\ smb_value = None /\ verror = NoError
    /\ geodetic = <<>> /\ rgi_area = None /\ gdf_sel = <<>>
    /\ gmb_value_02 = None /\ gmb_error_02 = None /\ comp_gmb_smb = <<>>

CmpStart ==
    /\ pc = "read_cr2"
    /\ cr2_data = EmptyDict /\ era5_data = EmptyDict /\ cru_data = EmptyDict
    /\ gmb_value = None /\ gmb_error = None
    /\ smb_means = <<None, None, None>>
    /\ n_glaciers = <<None, None, None>>
    /\ mb_tables = <<NoTable, NoTable, NoTable>>
    /\ glacier_means = <<<<>>, <<>>, <<>>>>
    /\ smb_stds = <<None, None, None>>
    /\ ensemble_mean = None /\ climate_uncertainty = None /\ smb_range = None
    /\ report = NoReport
    /\ uncertainty_vals = <<None, None, None>>
    /\ breakdown = <<None, None, None>>
    /\ biases = <<>>
    /\ figures = {}
    /\ error = NoError

\* the input families: the scenario of the specification with one of its
\* aspects varied at a time
InputsOf(s, g, defect, absent, t) ==
    /\ files = [ds \in 1..3 |-> RecordFile(ds, s[ds], g[ds], defect)]
    /\ mb_files = [ds \in 1..3 |-> MbFile(t[ds])]
    /\ absent_inputs = absent

DefaultTables == <<SeriesDefault, SeriesDefault, SeriesDefault>>

InitCmp ==
    /\ \/ \E s \in [1..3 -> SMBValues], g \in GMBValues :
             InputsOf(s, <<g, g, g>>, NoDefect, {}, DefaultTables)
       \/ \E g \in GMBValues, defect \in Defects :
             InputsOf(ScenarioSMB, <<g, g, g>>, defect, {}, DefaultTables)
       \/ \E g \in [1..3 -> GMBValues] :
             InputsOf(ScenarioSMB, g, NoDefect, {}, DefaultTables)
       \/ \E i \in Inputs :
             InputsOf(ScenarioSMB, ScenarioGMB, NoDefect, {i}, DefaultTables)
       \/ \E t \in [1..3 -> SeriesTables] :
             InputsOf(ScenarioSMB, ScenarioGMB, NoDefect, {}, t)
    /\ CmpStart
    /\ ValIdle
    /\ StdIdle
    /\ RestIdle

\* the variables of the comparison script that a failed read leaves alone
cmpResults == <<gmb_value, gmb_error, smb_means, n_glaciers, mb_tables,
                glacier_means, smb_stds, ensemble_mean, climate_uncertainty,
                smb_range, report, uncertainty_vals, breakdown, biases,
                figures>>
cmpInputs == <<files, mb_files, absent_inputs>>

\* lines 39-41: the three calls of read_comparison_csv
ReadCr2 ==
    /\ pc = "read_cr2"
    /\ LET r == PdReadCsv(1, files[1])
       IN  IF r.error # "none"
           THEN /\ error' = [type |-> r.error, arg |-> RecordNames[1]]
                /\ pc' = "failed"
                /\ cr2_data' = cr2_data
           ELSE /\ cr2_data' = read_comparison_csv(r.df)
                /\ pc' = "read_era5"
                /\ error' = error
    /\ UNCHANGED <<cmpInputs, era5_data, cru_data, cmpResults, valVars, stdVars, restVars>>

ReadEra5 ==
    /\ pc = "read_era5"
    /\ LET r == PdReadCsv(2, files[2])
       IN  IF r.error # "none"
           THEN /\ error' = [type |-> r.error, arg |-> RecordNames[2]]
                /\ pc' = "failed"
                /\ era5_data' = era5_data
           ELSE /\ era5_data' = read_comparison_csv(r.df)
                /\ pc' = "read_cru"
                /\ error' = error
    /\ UNCHANGED <<cmpInputs, cr2_data, cru_data, cmpResults, valVars, stdVars, restVars>>

ReadCru ==
    /\ pc = "read_cru"
    /\ LET r == PdReadCsv(3, files[3])
       IN  IF r.error # "none"
           THEN /\ error' = [type |-> r.error, arg |-> RecordNames[3]]
                /\ pc' = "failed"
                /\ cru_data' = cru_data
           ELSE /\ cru_data' = read_comparison_csv(r.df)
                /\ pc' = "extract"
                /\ error' = error
    /\ UNCHANGED <<cmpInputs, cr2_data, era5_data, cmpResults, valVars, stdVars, restVars>>

\* lines 44-53: extract mean values
ExtractValues ==
    /\ pc = "extract"
    /\ gmb_value' = Assigned(1)
    /\ gmb_error' = Assigned(2)
    /\ smb_means' = <<Assigned(3), Assigned(4), Assigned(5)>>
    /\ n_glaciers' = <<Assigned(6), Assigned(7), Assigned(8)>>
    /\ IF FirstKeyError <= Len(Lookups)
       THEN /\ error' = [type |-> "KeyError", arg |-> Lookups[FirstKeyError][2]]
            /\ pc' = "failed"
       ELSE /\ error' = error
            /\ pc' = "read_mb"
    /\ UNCHANGED <<cmpInputs, cr2_data, era5_data, cru_data, mb_tables,
                   glacier_means, smb_stds, ensemble_mean, climate_uncertainty,
                   smb_range, report, uncertainty_vals, breakdown, biases,
                   figures, valVars, stdVars, restVars>>

\* lines 60-62: the three mb.csv tables, read in the order CR2MET, ERA5, CRU
ReadMbTables ==
    /\ pc = "read_mb"
    /\ LET r == [ds \in 1..3 |-> PdReadCsv(ds + 3, mb_files[ds])]
           bad == {ds \in 1..3 : r[ds].error # "none"}
           firstBad == IF bad = {} THEN 4
                       ELSE CHOOSE ds \in bad : \A e \in bad : ds <= e
       IN  /\ mb_tables' = [ds \in 1..3 |->
                               IF ds < firstBad THEN r[ds].df ELSE NoTable]
           /\ IF firstBad <= 3
              THEN /\ error' = [type |-> r[firstBad].error,
                                arg |-> "mb.csv"]
                   /\ pc' = "failed"
              ELSE /\ error' = error
                   /\ pc' = "variability"
    /\ UNCHANGED <<cmpInputs, cr2_data, era5_data, cru_data, gmb_value,
                   gmb_error, smb_means, n_glaciers, glacier_means, smb_stds,
                   ensemble_mean, climate_uncertainty, smb_range, report,
                   uncertainty_vals, breakdown, biases, figures, valVars,
                   stdVars, restVars>>

\* lines 66-77: mean across the years of each glacier, then the standard
\* deviation of these means across the glaciers
GlacierVariability ==
    /\ pc = "variability"
    /\ glacier_means' = [ds \in 1..3 |->
                            GlacierMeans(SelectNumeric(mb_tables[ds]))]
    /\ smb_stds' = [ds \in 1..3 |-> PandasStd(glacier_means'[ds])]
    /\ pc' = "statistics"
    /\ UNCHANGED <<cmpInputs, cr2_data, era5_data, cru_data, gmb_value,
                   gmb_error, smb_means, n_glaciers, mb_tables, ensemble_mean,
                   climate_uncertainty, smb_range, report, uncertainty_vals,
                   breakdown, biases, figures, error, valVars, stdVars, restVars>>

\* faulty variant: the sum of the dataset values divided by one more than
\* their number
EnsembleMeanOffByOne(means) == NpTrueDiv(SeqSum(means), F(Len(means) + 1))

\* line 84: ensemble_mean = np.mean(smb_means)
EnsembleMean(means) == NpMean(means)

\* faulty variant: the population standard deviation of the dataset values
\* (ddof left at 0, divisor N)
ClimateUncertaintyPopulation(means) == NpStd(means, 0)

\* line 85: climate_uncertainty = np.std(smb_means, ddof=1)
ClimateUncertainty(means) == NpStd(means, 1)

\* lines 83-100: multi-dataset statistics and their report (each number is
\* printed with one decimal)
ComputeStatistics ==
    /\ pc = "statistics"
    /\ ensemble_mean' = EnsembleMean(smb_means)
    /\ climate_uncertainty' = ClimateUncertainty(smb_means)
    /\ smb_range' = FSub(SeqMax(smb_means), SeqMin(smb_means))
    /\ report' = [observed |-> <<gmb_value, gmb_error>>,
                  datasets |-> [ds \in 1..3 |->
                      <<smb_means[ds], smb_stds[ds], n_glaciers[ds]>>],
                  within |-> NpMean(smb_stds),
                  between |-> climate_uncertainty',
                  ensemble |-> <<ensemble_mean', climate_uncertainty'>>]
    /\ pc' = "plots"
    /\ UNCHANGED <<cmpInputs, cr2_data, era5_data, cru_data, gmb_value,
                   gmb_error, smb_means, n_glaciers, mb_tables, glacier_means,
                   smb_stds, uncertainty_vals, breakdown, biases, figures,
                   error, valVars, stdVars, restVars>>

\* lines 106-289: panels A-E; the title of panel C evaluates int(cr2_n),
\* panel E sets its y limit to max(uncertainty_vals) * 1.3
CreatePlots ==
    /\ pc = "plots"
    /\ IF IsNaN(n_glaciers[1])
       THEN /\ error' = [type |-> "ValueError", arg |-> "int(cr2_n)"]
            /\ uncertainty_vals' = uncertainty_vals
            /\ pc' = "failed"
       ELSE /\ uncertainty_vals' =
                   UncertaintyVals(gmb_error, smb_stds, climate_uncertainty)
            /\ IF IsNaN(PyMax(uncertainty_vals', 3))
               THEN /\ error' = [type |-> "ValueError", arg |-> "set_ylim"]
                    /\ pc' = "failed"
               ELSE /\ error' = error
                    /\ pc' = "summary"
    /\ UNCHANGED <<cmpInputs, cr2_data, era5_data, cru_data, gmb_value,
                   gmb_error, smb_means, n_glaciers, mb_tables, glacier_means,
                   smb_stds, ensemble_mean, climate_uncertainty, smb_range,
                   report, breakdown, biases, figures, valVars, stdVars, restVars>>

\* lines 291-321: summary_text with the UNCERTAINTY BREAKDOWN and BIASES blocks
SummaryText ==
    /\ pc = "summary"
    /\ LET b == [i \in 1..3 |-> [abs |-> BiasAbs(smb_means[i], gmb_value),
                                 pct |-> BiasPct(smb_means[i], gmb_value)]]
       IN  IF \E i \in 1..3 : b[i].pct.k = "ZeroDivisionError"
           THEN /\ error' = [type |-> "ZeroDivisionError", arg |-> "gmb_value"]
                /\ biases' = biases
                /\ breakdown' = breakdown
                /\ pc' = "failed"
           ELSE /\ error' = error
                /\ biases' = b
                /\ breakdown' =
                       UncertaintyVals(gmb_error, smb_stds, climate_uncertainty)
                /\ pc' = "savefig"
    /\ UNCHANGED <<cmpInputs, cr2_data, era5_data, cru_data, gmb_value,
                   gmb_error, smb_means, n_glaciers, mb_tables, glacier_means,
                   smb_stds, ensemble_mean, climate_uncertainty, smb_range,
                   report, uncertainty_vals, figures, valVars, stdVars, restVars>>

\* lines 323-417: both figures are written
SaveFigures ==
    /\ pc = "savefig"
    /\ figures' = {"Multi_Dataset_Comparison_Points_DA1.png",
                   "Multi_Dataset_Comparison_Publication_DA1.png"}
    /\ pc' = "done"
    /\ UNCHANGED <<cmpInputs, cr2_data, era5_data, cru_data, gmb_value,
                   gmb_error, smb_means, n_glaciers, mb_tables, glacier_means,
                   smb_stds, ensemble_mean, climate_uncertainty, smb_range,
                   report, uncertainty_vals, breakdown, biases, error,
                   valVars, stdVars, restVars>>

NextCmp ==
    \/ ReadCr2 \/ ReadEra5 \/ ReadCru
    \/ ExtractValues
    \/ ReadMbTables
    \/ GlacierVariability
    \/ ComputeStatistics
    \/ CreatePlots
    \/ SummaryText
    \/ SaveFigures

SpecCmp == InitCmp /\ [][NextCmp]_vars

-----------------------------------------------------------------------------
(* 02_Andes_2000_2019_CR2_figura_2023.py: one iteration of the cluster loop *)

MaxGlaciers == 3

DropIndex == 20        \* mb_per_glacier_id.columns[20]
SquareMetresPerKm2 == 1000000

GlacierIds == 1..MaxGlaciers
AreaValues == {1000000, 2500000}        \* m2, as stored in the run output
MarkedYears == {DropIndex, NYears - 1}  \* the year column a row may deviate in

\* column labels of mb_per_glacier_id: the year columns 0..21, then 'rgi_id'

\* one row of get_specific_mb(year=years): the value b in every year, except
\* sv in the marked year
MBRow(b, sv, marked) == [i \in 1..NYears |-> IF i = marked + 1 THEN sv ELSE b]
MBRows(marked) ==
    { MBRow(F(-1200), F(300), marked),   \* one year unlike the others
      MBRow(F(300), F(300), marked),     \* the same in every year
      MBRow(F(300), NaN, marked),        \* one year missing
      MBRow(NaN, NaN, marked) }          \* no year simulated

\* faulty variant: no row is dropped
DropNaKeepAll(rows) == rows

\* DataFrame.dropna(axis=0): rows with a missing area are removed, order kept
DropNa(rows) == SelectSeq(rows, LAMBDA r : ~IsNaN(r.area))

\* faulty variant: weights ignored
NpAverageUnweighted(a, weights) == NpMean(a)

\* faulty variant: every value paired with the weight of the next position
NpAverageShifted(a, weights) ==
    NpTrueDiv(SeqSum([i \in 1..Len(a) |->
                         FMul(a[i], weights[(i % Len(a)) + 1])]),
              SeqSum(weights))

\* np.average(a, weights=w): sum(a * w) / sum(w); zero weight sum raises
NpAverage(a, weights) ==
    LET scl == SeqSum(weights)
    IN  IF IsNum(scl) /\ scl.n = 0 THEN Raised("ZeroDivisionError")
        ELSE NpTrueDiv(SeqSum([i \in 1..Len(a) |-> FMul(a[i], weights[i])]), scl)

\* list without the element at 0-based position k
DropAt(seq, k) == [i \in 1..(Len(seq) - 1) |-> IF i <= k THEN seq[i] ELSE seq[i + 1]]

\* positions (1-based, in the 23-column table) of the numeric columns of cols
NumericPositions(cols) ==
    LET pos(c) == CHOOSE i \in 1..NYears : YearColumns[i] = c
        num == SelectSeq(cols, LAMBDA c : c # IdColumn)
    IN  [i \in 1..Len(num) |-> pos(num[i])]

\* mb_sim.mb_sim * (mb_sim.area_sim / mb_sim.area_sim.sum())
MbMmPon(means, area_sim) ==
    LET total == PandasSum(area_sim)
    IN  [g \in 1..Len(means) |-> FMul(means[g], NpTrueDiv(area_sim[g], total))]

\* round(x, 3)
Round3(x) == IF IsNum(x) THEN Norm(RoundHalfEven(1000 * x.n, x.d), 1000) ELSE x

\* the geodetic table: one entry per glacier and period, indexed by rgiid;
\* dmdtda and err_dmdtda in m w.e. per year, area in m2
GeodeticPeriod == "2000-01-01_2020-01-01"
GeodeticTable ==
    [i \in 1..(MaxGlaciers + 2) |->
        IF i <= MaxGlaciers
        THEN [rgiid |-> i, period |-> GeodeticPeriod,
              area |-> F(1000000 * i), dmdtda |-> Norm(-i, 4),
              err_dmdtda |-> Norm(i, 20)]
        ELSE IF i = MaxGlaciers + 1
        THEN [rgiid |-> 1, period |-> "2000-01-01_2010-01-01",
              area |-> F(1000000), dmdtda |-> Norm(-3, 1),
              err_dmdtda |-> Norm(1, 2)]
        ELSE [rgiid |-> MaxGlaciers + 1, period |-> GeodeticPeriod,
              area |-> F(4000000), dmdtda |-> Norm(-2, 1),
              err_dmdtda |-> Norm(1, 4)]]

\* faulty variant: to_csv(header=False), the column names are not written
ToCsvNoHeader(rows) ==
    [i \in 1..Len(rows) |->
        Row(IF IsNaN(rows[i].value) THEN EmptyCell ELSE NumCell(rows[i].value),
            rows[i].label)]

\* DataFrame(list of tuples).to_csv(index=False): the line of column names,
\* then one line per tuple; column 0 is a float column, a NaN is written as
\* an empty cell
ToCsv(rows) ==
    <<HeaderRow>> \o
    [i \in 1..Len(rows) |->
        Row(IF IsNaN(rows[i].value) THEN EmptyCell ELSE NumCell(rows[i].value),
            rows[i].label)]

\* the variables of the later stages of the cluster iteration
valMore == <<geodetic, rgi_area, gdf_sel, gmb_value_02, gmb_error_02,
             comp_gmb_smb>>

NoMbSim == [columns |-> <<>>, mb_sim |-> <<>>, rgiid |-> <<>>,
            area_sim |-> <<>>, mb_mm_pon |-> <<>>]

CmpIdle ==
    /\ pc = "idle" /\ files = <<>>
    /\ cr2_data = EmptyDict /\ era5_data = EmptyDict /\ cru_data = EmptyDict
    /\ gmb_value = None /\ gmb_error = None
    /\ smb_means = <<None, None, None>> /\ n_glaciers = <<None, None, None>>
    /\ ensemble_mean = None /\ climate_uncertainty = None /\ smb_range = None
    /\ biases = <<>> /\ error = NoError
    /\ absent_inputs = {} /\ mb_files = <<>>
    /\ mb_tables = <<NoTable, NoTable, NoTable>>
    /\ glacier_means = <<<<>>, <<>>, <<>>>>
    /\ smb_stds = <<None, None, None>>
    /\ report = NoReport
    /\ uncertainty_vals = <<None, None, None>>
    /\ breakdown = <<None, None, None>>
    /\ figures = {}

\* the start of an iteration of the cluster loop, the geodetic table apart
ValStart ==
    /\ vpc = "load"
    /\ rgi_id = <<>> /\ area = <<>> /\ ID_area = <<>>
    /\ max_n = 0 /\ ID_data = <<>> /\ ID_rgi_id = <<>> /\ gdirs = <<>>
    /\ lista = <<>> /\ mb_per_glacier = <<>>
    /\ mb_per_glacier_id = [columns |-> <<>>, rgi_id |-> <<>>]
    /\ areas = <<>> /\ mb_mean = <<>>
    /\ mb_sim = NoMbSim
    /\ smb_value = None /\ verror = NoError
    /\ gdf_sel = [i \in 1..(MaxGlaciers + 1) |-> i]
    /\ rgi_area = F(3 * (MaxGlaciers + 1))
    /\ gmb_value_02 = None /\ gmb_error_02 = None /\ comp_gmb_smb = <<>>
    /\ CmpIdle
    /\ StdIdle
    /\ RestIdle

InitVal == ValStart /\ geodetic = GeodeticTable

\* lines 91-95: the compiled run output of the cluster
LoadSimulationOutput ==
    /\ vpc = "load"
    /\ rgi_id' = [i \in GlacierIds |-> i]
    /\ \E a \in [GlacierIds -> {F(v) : v \in AreaValues} \cup {NaN}] :
          area' = [i \in GlacierIds |-> a[i]]
    /\ vpc' = "area"
    /\ UNCHANGED <<ID_area, max_n, ID_data, ID_rgi_id, gdirs, lista,
                   mb_per_glacier, mb_per_glacier_id, areas, mb_mean, mb_sim,
                   smb_value, verror, valMore, cmpVars, stdVars, restVars>>

\* lines 105-119: area table of the glaciers with a valid area
ProcessAreaData ==
    /\ vpc = "area"
    /\ LET table == DropNa([i \in 1..Len(rgi_id) |->
                               [id |-> rgi_id[i], area |-> area[i]]])
           n == Len(table)
       IN  /\ max_n' = n
           /\ ID_area' = [i \in 1..n |->
                             [id |-> table[i].id, area |-> table[i].area,
                              number |-> i - 1]]
           /\ ID_data' = [i \in 1..n |-> i - 1]
           /\ ID_rgi_id' = [i \in 1..n |-> table[i].id]
    /\ vpc' = "mass_balance"
    /\ UNCHANGED <<rgi_id, area, gdirs, lista, mb_per_glacier,
                   mb_per_glacier_id, areas, mb_mean, mb_sim, smb_value,
                   verror, valMore, cmpVars, stdVars, restVars>>

\* lines 128-150: per-glacier specific mass balance, written to mb.csv.
\* init_glacier_directories opens one directory per identifier, in the order
\* of the list it is given.
CalculateMassBalance ==
    /\ vpc = "mass_balance"
    /\ gdirs' = ID_rgi_id
    /\ lista' = [i \in 1..Len(ID_data) |-> ID_rgi_id[ID_data[i] + 1]]
    /\ \E marked \in MarkedYears :
       \E specific_mb \in [{ID_rgi_id[i] : i \in 1..Len(ID_rgi_id)} -> MBRows(marked)] :
          mb_per_glacier' = [i \in 1..Len(ID_data) |->
                                specific_mb[ID_rgi_id[ID_data[i] + 1]]]
    /\ mb_per_glacier_id' = [columns |-> YearColumns \o <<IdColumn>>,
                             rgi_id |-> ID_rgi_id]
    /\ vpc' = "weighted_mean"
    /\ UNCHANGED <<rgi_id, area, ID_area, max_n, ID_data, ID_rgi_id, areas,
                   mb_mean, mb_sim, smb_value, verror, valMore, cmpVars, stdVars, restVars>>

\* lines 157-173: per-year area-weighted mean, written to mb_promedio.csv
AreaWeightedMean ==
    /\ vpc = "weighted_mean"
    /\ areas' = [i \in 1..Len(ID_area) |->
                     NpTrueDiv(ID_area[i].area, F(SquareMetresPerKm2))]
    /\ IF Len(mb_per_glacier) = 0
       THEN \* mb_per_glacier[0] of an empty frame
            /\ verror' = [type |-> "KeyError", arg |-> "0"]
            /\ mb_mean' = mb_mean
            /\ vpc' = "failed"
       ELSE /\ mb_mean' = [y \in 1..NYears |->
                  NpAverage([g \in 1..Len(mb_per_glacier) |->
                                mb_per_glacier[g][y]], areas')]
            /\ verror' = verror
            /\ vpc' = "geodetic"
    /\ UNCHANGED <<rgi_id, area, ID_area, max_n, ID_data, ID_rgi_id, gdirs,
                   lista, mb_per_glacier, mb_per_glacier_id, mb_sim,
                   smb_value, valMore, cmpVars, stdVars, restVars>>

\* lines 188-192: the entries of the geodetic table for the reference period
\* whose glacier is one of ids, in the order of the table
GmbMaipo(gmb, ids) ==
    SelectSeq(gmb, LAMBDA e : e.period = GeodeticPeriod /\ e.rgiid \in ids)

\* faulty variant: the area in km2 is used as the weight, not the share
DmdtdaMmPonUnnormalised(mm, a) ==
    [i \in 1..Len(mm) |-> FMul(mm[i], NpTrueDiv(a[i], F(SquareMetresPerKm2)))]

\* lines 193-194: x * ((area/1000000) / (area.sum()/1000000))
DmdtdaMmPon(mm, a) ==
    LET total == NpTrueDiv(PandasSum(a), F(SquareMetresPerKm2))
    IN  [i \in 1..Len(mm) |->
            FMul(mm[i], NpTrueDiv(NpTrueDiv(a[i], F(SquareMetresPerKm2)), total))]

\* lines 181-197: geodetic mass balance of the glaciers of the cluster, in
\* mm w.e., each weighted by its share of the geodetic area
CompareGeodetic ==
    /\ vpc = "geodetic"
    /\ LET gmb_maipo == GmbMaipo(geodetic, {ID_rgi_id[i] : i \in 1..Len(ID_rgi_id)})
           n == Len(gmb_maipo)
           a == [i \in 1..n |-> gmb_maipo[i].area]
           dmdtda_mm == [i \in 1..n |-> FMul(gmb_maipo[i].dmdtda, F(1000))]
           err_dmdtda_mm == [i \in 1..n |-> FMul(gmb_maipo[i].err_dmdtda, F(1000))]
       IN  /\ gmb_value_02' = PandasSum(DmdtdaMmPon(dmdtda_mm, a))
           /\ gmb_error_02' = PandasSum(DmdtdaMmPon(err_dmdtda_mm, a))
    /\ vpc' = "smb"
    /\ UNCHANGED <<rgi_id, area, ID_area, max_n, ID_data, ID_rgi_id, gdirs,
                   lista, mb_per_glacier, mb_per_glacier_id, areas, mb_mean,
                   mb_sim, smb_value, geodetic, rgi_area, gdf_sel,
                   comp_gmb_smb, verror, cmpVars, stdVars, restVars>>

\* lines 199-207: area-weighted SMB of the cluster. DataFrame.mean(axis=1) on
\* a frame that still holds the string column either drops it (numeric_only
\* default of pandas < 2) or raises TypeError (pandas >= 2).
AreaWeightedSMB ==
    /\ vpc = "smb"
    /\ LET cols == DropAt(mb_per_glacier_id.columns, DropIndex)
           n == Len(mb_per_glacier)
       IN  \/ /\ IdColumn \in {cols[i] : i \in 1..Len(cols)}
              /\ mb_sim' = [NoMbSim EXCEPT !.columns = cols]
              /\ smb_value' = smb_value
              /\ verror' = [type |-> "TypeError", arg |-> "mean"]
              /\ vpc' = "failed"
           \/ \E numeric \in {NumericPositions(cols)} :
              \E means \in {[g \in 1..n |-> PandasRowMean(mb_per_glacier[g], numeric)]} :
                  /\ mb_sim' = [columns |-> cols, mb_sim |-> means,
                                rgiid |-> mb_per_glacier_id.rgi_id,
                                area_sim |-> areas,
                                mb_mm_pon |-> MbMmPon(means, areas)]
                  /\ smb_value' = PandasSum(mb_sim'.mb_mm_pon)
                  /\ verror' = verror
                  /\ vpc' = "compile"
    /\ UNCHANGED <<rgi_id, area, ID_area, max_n, ID_data, ID_rgi_id, gdirs,
                   lista, mb_per_glacier, mb_per_glacier_id, areas, mb_mean,
                   valMore, cmpVars, stdVars, restVars>>

\* lines 209-230: the record of the cluster, written as (value, label) rows
CompileComparison ==
    /\ vpc = "compile"
    /\ LET rgi_area_s == Round3(rgi_area)
           rgi_oggm_s == Round3(NpTrueDiv(
                             PandasSum([i \in 1..Len(ID_area) |-> ID_area[i].area]),
                             F(SquareMetresPerKm2)))
           porcentaje_s == Round3(FMul(NpTrueDiv(rgi_oggm_s, rgi_area_s), F(100)))
       IN  comp_gmb_smb' = << Row(gmb_value_02, "GMB"),
                              Row(gmb_error_02, "GMB_error"),
                              Row(smb_value, "SMB"),
                              Row(rgi_area_s, "area_rgi"),
                              Row(rgi_oggm_s, "area_oggm"),
                              Row(porcentaje_s, "por_area_oggm"),
                              Row(F(Len(gdf_sel)), "n_g_rgi"),
                              Row(F(max_n), "n_g_oggm") >>
    /\ files' = <<ToCsv(comp_gmb_smb')>>
    /\ vpc' = "written"
    /\ UNCHANGED <<rgi_id, area, ID_area, max_n, ID_data, ID_rgi_id, gdirs,
                   lista, mb_per_glacier, mb_per_glacier_id, areas, mb_mean,
                   mb_sim, smb_value, geodetic, rgi_area, gdf_sel,
                   gmb_value_02, gmb_error_02, verror, stdVars, restVars>>
    /\ UNCHANGED <<pc, cr2_data, era5_data, cru_data, cmpResults, error,
                   absent_inputs, mb_files>>

\* 03_Multi_Dataset_Comparison_DA1.py line 39: the record just written is
\* read back by read_comparison_csv
ReadWrittenRecord ==
    /\ vpc = "written"
    /\ cr2_data' = read_comparison_csv(PdReadCsv(1, files[1]).df)
    /\ vpc' = "read"
    /\ UNCHANGED <<rgi_id, area, ID_area, max_n, ID_data, ID_rgi_id, gdirs,
                   lista, mb_per_glacier, mb_per_glacier_id, areas, mb_mean,
                   mb_sim, smb_value, valMore, verror, stdVars, restVars>>
    /\ UNCHANGED <<pc, files, era5_data, cru_data, cmpResults, error,
                   absent_inputs, mb_files>>

NextVal ==
    \/ LoadSimulationOutput
    \/ ProcessAreaData
    \/ CalculateMassBalance
    \/ AreaWeightedMean
    \/ CompareGeodetic
    \/ AreaWeightedSMB
    \/ CompileComparison
    \/ ReadWrittenRecord

SpecVal == InitVal /\ [][NextVal]_vars

\* the same iteration with a geodetic table that may lack the entry of a
\* glacier of the cluster for the reference period
GeodeticTables ==
    {GeodeticTable, SelectSeq(GeodeticTable, LAMBDA e : e.rgiid # 2)}

InitGeo == ValStart /\ geodetic \in GeodeticTables

SpecGeo == InitGeo /\ [][NextVal]_vars

-----------------------------------------------------------------------------
(* np.std(smb_means, ddof=1) of line 85 as a function of its argument: the  *)
(* array of dataset SMB values, here of any length up to three              *)

StdInputs ==
    LET V == {F(v) : v \in SMBValues}
    IN  {<<>>} \cup {<<a>> : a \in V} \cup {<<a, b>> : a \in V, b \in V}
               \cup {<<a, b, c>> : a \in V, b \in V, c \in V}

InitStd ==
    /\ std_pc = "apply"
    /\ std_in \in StdInputs
    /\ std_out = None
    /\ CmpIdle
    /\ ValIdle
    /\ RestIdle

\* line 85
ApplyStd ==
    /\ std_pc = "apply"
    /\ std_out' = NpStd(std_in, 1)
    /\ std_pc' = "done"
    /\ UNCHANGED <<std_in, cmpVars, valVars, restVars>>

NextStd == ApplyStd

SpecStd == InitStd /\ [][NextStd]_vars

-----------------------------------------------------------------------------
(* oggm_cr2met_chile.py: batch_process_all_glaciers                         *)

MaxRgi == 14           \* glaciers in the region file
MaxFaults == 2         \* glaciers of one run for which a step fails
HeadCount == 10        \* chile_glaciers.head(10)
ContinueOnError == TRUE    \* cfg.PARAMS['continue_on_error'] = True

\* glacier i of the RGI region file, coordinates in whole degrees: glaciers
\* west of, on the edge of, inside and north of the box of lines 152-157
RgiEntry(i) ==
    [RGIId |-> i,
     CenLon |-> IF i % 10 = 3 THEN -78 ELSE IF i = 5 THEN -77 ELSE -70,
     CenLat |-> IF i = 9 THEN -16 ELSE IF i = 7 THEN -56 ELSE -33]

\* lines 152-157: the rows of the region file inside the box, order kept
get_chilean_glaciers(df) ==
    SelectSeq(df, LAMBDA g : /\ g.CenLon >= -77 /\ g.CenLon <= -66
                             /\ g.CenLat >= -56 /\ g.CenLat <= -17)

\* DataFrame.head(n): the first n rows, all rows if there are fewer
DfHead(df, n) == SubSeq(df, 1, IF Len(df) < n THEN Len(df) ELSE n)

NoException == "none"
\* the exceptions the steps of lines 184 and 187 can raise; all of them are
\* subclasses of Exception
StepExceptions == {"KeyError", "OSError", "RuntimeError"}
ExceptionSubclasses == {"KeyError", "OSError", "RuntimeError", "ValueError"}

\* a call tasks.f(gdir) of an entity task whose body raises exc: the error is
\* written to the log of the glacier, and raised again only when
\* continue_on_error is off
EntityTask(exc) ==
    IF exc = NoException THEN [raised |-> NoException, logged |-> FALSE]
    ELSE IF ContinueOnError THEN [raised |-> NoException, logged |-> TRUE]
    ELSE [raised |-> exc, logged |-> TRUE]

\* lines 182-194, for a glacier whose extract_climate_for_glacier raises
\* extract_exc and whose apparent_mb_from_any_mb fails with task_exc
\* (NoException: the step succeeds). result is <<gdir>>, or <<>> for None.
process_glacier_with_cr2met(gdir, extract_exc, task_exc) ==
    LET task == IF extract_exc = NoException THEN EntityTask(task_exc)
                ELSE [raised |-> NoException, logged |-> FALSE]
        exc == IF extract_exc # NoException THEN extract_exc ELSE task.raised
    IN  IF exc = NoException
        THEN [result |-> <<gdir>>, printed |-> FALSE, logged |-> task.logged,
              propagated |-> NoException]
        ELSE IF exc \in ExceptionSubclasses
        THEN [result |-> <<>>, printed |-> TRUE, logged |-> task.logged,
              propagated |-> NoException]
        ELSE [result |-> <<>>, printed |-> FALSE, logged |-> task.logged,
              propagated |-> exc]

InitBatch ==
    /\ bpc = "get_glaciers"
    /\ \E n \in 0..MaxRgi : rgi_df = [i \in 1..n |-> RgiEntry(i)]
    /\ chile_glaciers = <<>> /\ rgi_ids = <<>> /\ batch_gdirs = <<>>
    /\ batch_idx = 0 /\ successful_gdirs = <<>> /\ returned = <<>>
    /\ passed = <<>> /\ printed_errors = {} /\ task_log = {}
    /\ CmpIdle
    /\ ValIdle
    /\ StdIdle
    /\ DiagIdle
    /\ CluIdle
    /\ CruIdle

\* line 207
GetChileanGlaciers ==
    /\ bpc = "get_glaciers"
    /\ chile_glaciers' = get_chilean_glaciers(rgi_df)
    /\ bpc' = "init"
    /\ UNCHANGED <<rgi_df, rgi_ids, batch_gdirs, batch_idx, successful_gdirs,
                   returned, passed, printed_errors, task_log>>
    /\ UNCHANGED <<cmpVars, valVars, stdVars, diagVars, cluVars, cruVars>>

\* lines 212-228: the first rows of the selection, their identifiers, and one
\* glacier directory per identifier in the order of the list
InitGlacierDirectories ==
    /\ bpc = "init"
    /\ chile_glaciers' = DfHead(chile_glaciers, HeadCount)
    /\ rgi_ids' = [i \in 1..Len(chile_glaciers') |-> chile_glaciers'[i].RGIId]
    /\ batch_gdirs' = rgi_ids'
    /\ bpc' = "preprocess"
    /\ UNCHANGED <<rgi_df, batch_idx, successful_gdirs, returned, passed,
                   printed_errors, task_log>>
    /\ UNCHANGED <<cmpVars, valVars, stdVars, diagVars, cluVars, cruVars>>

\* lines 234-243: the preprocessing tasks, run on every glacier directory
Preprocess ==
    /\ bpc = "preprocess"
    /\ bpc' = "loop"
    /\ UNCHANGED <<rgi_df, chile_glaciers, rgi_ids, batch_gdirs, batch_idx,
                   successful_gdirs, returned, passed, printed_errors,
                   task_log>>
    /\ UNCHANGED <<cmpVars, valVars, stdVars, diagVars, cluVars, cruVars>>

\* lines 250-257: one iteration of the loop over gdirs
ProcessGlacier ==
    /\ bpc = "loop"
    /\ batch_idx < Len(batch_gdirs)
    /\ LET gdir == batch_gdirs[batch_idx + 1]
           may_fail == Cardinality(printed_errors \cup task_log) < MaxFaults
       IN  \E extract_exc \in {NoException} \cup
                              (IF may_fail THEN StepExceptions ELSE {}) :
           \E task_exc \in {NoException} \cup
                           (IF may_fail THEN StepExceptions ELSE {}) :
             LET r == process_glacier_with_cr2met(gdir, extract_exc, task_exc)
             IN  /\ passed' = Append(passed, gdir)
                 /\ printed_errors' = IF r.printed
                                      THEN printed_errors \cup {gdir}
                                      ELSE printed_errors
                 /\ task_log' = IF r.logged THEN task_log \cup {gdir}
                                ELSE task_log
                 /\ IF r.propagated # NoException
                    THEN /\ bpc' = "failed"
                         /\ UNCHANGED <<successful_gdirs, batch_idx>>
                    ELSE /\ successful_gdirs' = successful_gdirs \o r.result
                         /\ batch_idx' = batch_idx + 1
                         /\ bpc' = bpc
    /\ UNCHANGED <<rgi_df, chile_glaciers, rgi_ids, batch_gdirs, returned>>
    /\ UNCHANGED <<cmpVars, valVars, stdVars, diagVars, cluVars, cruVars>>

\* lines 259-262
ReturnSuccessful ==
    /\ bpc = "loop"
    /\ batch_idx = Len(batch_gdirs)
    /\ returned' = successful_gdirs
    /\ bpc' = "done"
    /\ UNCHANGED <<rgi_df, chile_glaciers, rgi_ids, batch_gdirs, batch_idx,
                   successful_gdirs, passed, printed_errors, task_log>>
    /\ UNCHANGED <<cmpVars, valVars, stdVars, diagVars, cluVars, cruVars>>

NextBatch ==
    \/ GetChileanGlaciers
    \/ InitGlacierDirectories
    \/ Preprocess
    \/ ProcessGlacier
    \/ ReturnSuccessful

SpecBatch == InitBatch /\ [][NextBatch]_vars

-----------------------------------------------------------------------------
(* diagnostic_check.py                                                      *)

MaxDiag == 3           \* glaciers of the cluster

\* the files of one glacier directory, as the has_file calls of lines 58-64
\* report them
Files(cl, ca, iv, fl, dg, fd, ge) ==
    [has_climate |-> cl, has_calib |-> ca, has_inv |-> iv,
     has_flowlines |-> fl, has_diag |-> dg, has_fl_diag |-> fd,
     has_geom |-> ge]

\* the directories a run can leave behind: stopped after each stage,
\* complete, complete without flowline diagnostics, geometry without
\* diagnostics
FileProfiles ==
    { Files(FALSE, FALSE, FALSE, FALSE, FALSE, FALSE, FALSE),
      Files(TRUE, FALSE, FALSE, FALSE, FALSE, FALSE, FALSE),
      Files(TRUE, TRUE, FALSE, FALSE, FALSE, FALSE, FALSE),
      Files(TRUE, TRUE, TRUE, FALSE, FALSE, FALSE, FALSE),
      Files(TRUE, TRUE, TRUE, TRUE, FALSE, FALSE, FALSE),
      Files(TRUE, TRUE, TRUE, TRUE, TRUE, TRUE, TRUE),
      Files(TRUE, TRUE, TRUE, TRUE, TRUE, FALSE, TRUE),
      Files(TRUE, TRUE, TRUE, TRUE, FALSE, FALSE, TRUE) }

\* faulty variant: the counter is incremented whatever the flag
IncrementAlways(count, flag) == count + 1

\* if flag: status[key] += 1
Increment(count, flag) == IF flag THEN count + 1 ELSE count

\* status[key]/len(gdirs)*100 of lines 97-101, 159 and 168
Percentage(count, n) ==
    LET q == PyTrueDiv(F(count), F(n))
    IN  IF q.k = "ZeroDivisionError" THEN q ELSE FMul(q, F(100))

InitDiag ==
    /\ dpc = "load"
    /\ diag_gdirs = <<>> /\ diag_i = 0
    /\ status = StatusZero
    /\ failed_glaciers = <<>> /\ successful_glaciers = <<>>
    /\ check_raised = {} /\ summary = <<>> /\ recommendation = ""
    /\ derror = NoError
    /\ CmpIdle
    /\ ValIdle
    /\ StdIdle
    /\ BatchIdle
    /\ CluIdle
    /\ CruIdle

\* lines 27-36: the directories of the glaciers of the cluster, one per
\* identifier of gdf_sel, or exit(1) when init_glacier_directories raises
LoadGlacierDirectories ==
    /\ dpc = "load"
    /\ \/ /\ dpc' = "exit"
          /\ derror' = [type |-> "SystemExit", arg |-> "1"]
          /\ UNCHANGED diag_gdirs
       \/ /\ \E n \in 0..MaxDiag : diag_gdirs' = [i \in 1..n |-> i]
          /\ dpc' = "loop"
          /\ UNCHANGED derror
    /\ UNCHANGED <<diag_i, status, failed_glaciers, successful_glaciers,
                   check_raised, summary, recommendation>>
    /\ UNCHANGED <<cmpVars, valVars, stdVars, batchVars, cluVars, cruVars>>

\* lines 55-90: one iteration of the status loop. The seven has_file calls
\* come first; if one of them raises, the except clause prints the error and
\* the loop goes on.
CheckGlacier ==
    /\ dpc = "loop"
    /\ diag_i < Len(diag_gdirs)
    /\ LET gdir == diag_gdirs[diag_i + 1]
       IN  \/ /\ check_raised' = check_raised \cup {gdir}
              /\ UNCHANGED <<status, failed_glaciers, successful_glaciers>>
           \/ \E f \in FileProfiles :
              /\ status' =
                   [has_climate |-> Increment(status.has_climate, f.has_climate),
                    has_calibration |-> Increment(status.has_calibration, f.has_calib),
                    has_inversion |-> Increment(status.has_inversion, f.has_inv),
                    has_model_flowlines |->
                        Increment(status.has_model_flowlines, f.has_flowlines),
                    has_diagnostics |-> Increment(status.has_diagnostics, f.has_diag),
                    has_fl_diagnostics |->
                        Increment(status.has_fl_diagnostics, f.has_fl_diag),
                    has_geometry |-> Increment(status.has_geometry, f.has_geom)]
              /\ IF f.has_diag
                 THEN /\ successful_glaciers' = Append(successful_glaciers, gdir)
                      /\ UNCHANGED failed_glaciers
                 ELSE /\ failed_glaciers' = Append(failed_glaciers,
                             [rgi_id |-> gdir, has_climate |-> f.has_climate,
                              has_calibration |-> f.has_calib,
                              has_inversion |-> f.has_inv,
                              has_flowlines |-> f.has_flowlines])
                      /\ UNCHANGED successful_glaciers
              /\ UNCHANGED check_raised
    /\ diag_i' = diag_i + 1
    /\ UNCHANGED <<dpc, diag_gdirs, summary, recommendation, derror>>
    /\ UNCHANGED <<cmpVars, valVars, stdVars, batchVars, cluVars, cruVars>>

\* lines 92-109: the summary block; the five percentages are printed with
\* one decimal
DiagnosticSummary ==
    /\ dpc = "loop"
    /\ diag_i = Len(diag_gdirs)
    /\ LET n == Len(diag_gdirs)
           counts == <<status.has_climate, status.has_calibration,
                       status.has_inversion, status.has_model_flowlines,
                       status.has_diagnostics>>
       IN  IF IsNum(Percentage(counts[1], n))
           THEN /\ summary' = [i \in 1..5 |-> Fmt1(Percentage(counts[i], n))]
                /\ dpc' = "failed_list"
                /\ UNCHANGED derror
           ELSE /\ derror' = [type |-> Percentage(counts[1], n).k, arg |-> "97"]
                /\ dpc' = "failed"
                /\ UNCHANGED summary
    /\ UNCHANGED <<diag_gdirs, diag_i, status, failed_glaciers,
                   successful_glaciers, check_raised, recommendation>>
    /\ UNCHANGED <<cmpVars, valVars, stdVars, batchVars, cluVars, cruVars>>

\* lines 111-140: the first failed glaciers and the log of the first one; an
\* error while reading the log is caught (139)
ListFailed ==
    /\ dpc = "failed_list"
    /\ dpc' = "recommendations"
    /\ UNCHANGED <<diag_gdirs, diag_i, status, failed_glaciers,
                   successful_glaciers, check_raised, summary,
                   recommendation, derror>>
    /\ UNCHANGED <<cmpVars, valVars, stdVars, batchVars, cluVars, cruVars>>

\* lines 142-172
Recommendations ==
    /\ dpc = "recommendations"
    /\ LET n == Len(diag_gdirs)
           pct == Percentage(status.has_diagnostics, n)
       IN  IF status.has_diagnostics = 0
           THEN /\ recommendation' = "No simulations completed"
                /\ dpc' = "done"
                /\ UNCHANGED derror
           ELSE IF ~IsNum(pct)
           THEN /\ derror' = [type |-> pct.k, arg |-> "159"]
                /\ dpc' = "failed"
                /\ UNCHANGED recommendation
           ELSE /\ recommendation' =
                      IF 2 * status.has_diagnostics < n
                      THEN "Only part of simulations completed"
                      ELSE "simulations completed successfully"
                /\ dpc' = "done"
                /\ UNCHANGED derror
    /\ UNCHANGED <<diag_gdirs, diag_i, status, failed_glaciers,
                   successful_glaciers, check_raised, summary>>
    /\ UNCHANGED <<cmpVars, valVars, stdVars, batchVars, cluVars, cruVars>>

NextDiag ==
    \/ LoadGlacierDirectories
    \/ CheckGlacier
    \/ DiagnosticSummary
    \/ ListFailed
    \/ Recommendations

SpecDiag == InitDiag /\ [][NextDiag]_vars

-----------------------------------------------------------------------------
(* 00_Diagnostic_Check_Clusters.py                                          *)

MaxClusterGlaciers == 2    \* rows of one cluster in RGI_BNA_Clusters.csv

\* line 30
clusters == <<"OT3", "DA1", "DA2", "DA3", "WA1", "WA2", "WA3", "WA4", "WA5",
              "WA6">>

\* faulty variant: except OSError
CaughtOSErrorOnly(exc) == exc = "OSError"

\* except Exception as e
Caught(exc) == exc \in ExceptionSubclasses

InitClu ==
    /\ cpc = "next"
    /\ cluster_k = 0 /\ visited = <<>>
    /\ cluster_n_glaciers = 0 /\ output_dir_exists = "unknown"
    /\ simulated_pct = None /\ init_result = "none" /\ n_caught = 0
    /\ cerror = NoError
    /\ CmpIdle
    /\ ValIdle
    /\ StdIdle
    /\ BatchIdle
    /\ DiagIdle
    /\ CruIdle

\* lines 36-51: the next cluster of the list and its glaciers; a cluster
\* without glaciers ends its iteration here
SelectCluster ==
    /\ cpc = "next"
    /\ cluster_k < Len(clusters)
    /\ visited' = Append(visited, clusters[cluster_k + 1])
    /\ \E n \in 0..MaxClusterGlaciers :
          /\ cluster_n_glaciers' = n
          /\ IF n = 0
             THEN cluster_k' = cluster_k + 1 /\ cpc' = "next"
             ELSE cluster_k' = cluster_k /\ cpc' = "output_dir"
    /\ output_dir_exists' = "unknown"
    /\ simulated_pct' = None
    /\ init_result' = "none"
    /\ UNCHANGED <<n_caught, cerror>>
    /\ UNCHANGED <<cmpVars, valVars, stdVars, batchVars, diagVars, cruVars>>

\* lines 54-57
CheckOutputDir ==
    /\ cpc = "output_dir"
    /\ \/ /\ output_dir_exists' = "no"
          /\ cluster_k' = cluster_k + 1
          /\ cpc' = "next"
       \/ /\ output_dir_exists' = "yes"
          /\ cluster_k' = cluster_k
          /\ cpc' = "compiled"
    /\ UNCHANGED <<visited, cluster_n_glaciers, simulated_pct, init_result,
                   n_caught, cerror>>
    /\ UNCHANGED <<cmpVars, valVars, stdVars, batchVars, diagVars, cruVars>>

\* the end of a try block in which exc was raised (NoException: none): the
\* except clause counts it, any other exception ends the script
AfterTry(exc, goto) ==
    IF exc = NoException
    THEN cpc' = goto /\ UNCHANGED <<n_caught, cerror>>
    ELSE IF Caught(exc)
    THEN cpc' = goto /\ n_caught' = n_caught + 1 /\ UNCHANGED cerror
    ELSE /\ cpc' = "failed"
         /\ cerror' = [type |-> exc, arg |-> clusters[cluster_k + 1]]
         /\ UNCHANGED n_caught

\* lines 60-72: the compiled output of the cluster, if there is one
CheckCompiledOutput ==
    /\ cpc = "compiled"
    /\ \/ \* no compiled file
          /\ UNCHANGED simulated_pct
          /\ AfterTry(NoException, "init")
       \/ \* open_dataset or ds.rgi_id raises
          /\ UNCHANGED simulated_pct
          /\ \E exc \in StepExceptions : AfterTry(exc, "init")
       \/ \E n_simulated \in 0..cluster_n_glaciers :
          LET q == PyTrueDiv(F(n_simulated), F(cluster_n_glaciers))
          IN  IF q.k = "ZeroDivisionError"
              THEN UNCHANGED simulated_pct /\ AfterTry(q.k, "init")
              ELSE /\ simulated_pct' = FMul(q, F(100))
                   /\ AfterTry(NoException, "init")
    /\ UNCHANGED <<cluster_k, visited, cluster_n_glaciers, output_dir_exists,
                   init_result>>
    /\ UNCHANGED <<cmpVars, valVars, stdVars, batchVars, diagVars, cruVars>>

\* lines 75-103: init_glacier_directories and the sample of run files
TryInitDirectories ==
    /\ cpc = "init"
    /\ \/ /\ init_result' = "raised"
          /\ \E exc \in StepExceptions : AfterTry(exc, "next")
       \/ /\ init_result' \in {"run files found", "no run files"}
          /\ AfterTry(NoException, "next")
    /\ cluster_k' = IF cpc' = "next" THEN cluster_k + 1 ELSE cluster_k
    /\ UNCHANGED <<visited, cluster_n_glaciers, output_dir_exists,
                   simulated_pct>>
    /\ UNCHANGED <<cmpVars, valVars, stdVars, batchVars, diagVars, cruVars>>

\* lines 105-107
DiagnosticComplete ==
    /\ cpc = "next"
    /\ cluster_k = Len(clusters)
    /\ cpc' = "complete"
    /\ UNCHANGED <<cluster_k, visited, cluster_n_glaciers, output_dir_exists,
                   simulated_pct, init_result, n_caught, cerror>>
    /\ UNCHANGED <<cmpVars, valVars, stdVars, batchVars, diagVars, cruVars>>

NextClu ==
    \/ SelectCluster
    \/ CheckOutputDir
    \/ CheckCompiledOutput
    \/ TryInitDirectories
    \/ DiagnosticComplete

\* the script is one sequential process: whenever a statement is left to
\* run, it runs
SpecClu == InitClu /\ [][NextClu]_vars /\ WF_vars(NextClu)

-----------------------------------------------------------------------------
(* 01a_Andes_2000_2019_CRU_2023.py                                          *)

Border == 80           \* border = 80

\* line 56, and the full list of line 59
TestRegions == <<"DA1">>
FullRegions == clusters

\* LR_Pf.csv with one row per cluster, every cluster with values of its own
\* (lapse rate in 1e-4 K/m, precipitation factor in tenths)
ParamTable == [i \in 1..Len(FullRegions) |->
                  [Cluster |-> FullRegions[i], LR |-> -55 - i, Pf |-> 10 + 2 * i]]

\* the parameter files: complete, in another order, without the row of DA1
ParamTables ==
    { ParamTable,
      [i \in 1..Len(ParamTable) |-> ParamTable[Len(ParamTable) + 1 - i]],
      SelectSeq(ParamTable, LAMBDA r : r.Cluster # "DA1") }

\* faulty variant: the parameter file is not filtered by cluster
ClusterParamUnfiltered(table, zona) == table

\* datos_param[datos_param['Cluster'] == zona]
ClusterParam(table, zona) == SelectSeq(table, LAMBDA r : r.Cluster = zona)

\* the workflow stages of lines 105-163, in the order of the script; the
\* three compile_*_statistics calls are one stage
Stages ==
    << "init_glacier_directories", "process_cru_data",
       "mu_star_calibration_from_geodetic_mb", "apparent_mb_from_any_mb",
       "calibrate_inversion_from_consensus", "init_present_time_glacier",
       "run_with_hydro", "compile_statistics", "compile_run_output" >>

InitCru ==
    /\ rpc = "params"
    /\ list_region \in {TestRegions, FullRegions}
    /\ datos_param \in ParamTables
    /\ zona_k = 0 /\ stage_k = 0
    /\ PARAMS = DefaultParams
    /\ executed = <<>> /\ rerror = NoError
    /\ CmpIdle
    /\ ValIdle
    /\ StdIdle
    /\ BatchIdle
    /\ DiagIdle
    /\ CluIdle

\* lines 61-101: the next cluster of the run list and its parameters
SetParameters ==
    /\ rpc = "params"
    /\ zona_k < Len(list_region)
    /\ LET zona == list_region[zona_k + 1]
           param == ClusterParam(datos_param, zona)
       IN  IF Len(param) = 0
           THEN \* param.LR.iloc[0] of an empty selection
                /\ rerror' = [type |-> "IndexError", arg |-> zona]
                /\ rpc' = "failed"
                /\ UNCHANGED PARAMS
           ELSE /\ PARAMS' = [temp_default_gradient |-> param[1].LR,
                              prcp_scaling_factor |-> param[1].Pf]
                /\ rpc' = "run"
                /\ UNCHANGED rerror
    /\ stage_k' = 0
    /\ UNCHANGED <<list_region, datos_param, zona_k, executed>>
    /\ UNCHANGED <<cmpVars, valVars, stdVars, batchVars, diagVars, cluVars>>

\* lines 105-163: the next workflow stage of the current cluster, run with
\* the global parameters as they are; a stage that raises ends the script
RunStage ==
    /\ rpc = "run"
    /\ stage_k < Len(Stages)
    /\ LET stage == Stages[stage_k + 1]
           skipped == stage = "init_present_time_glacier" /\ ~(Border >= 20)
       IN  \/ /\ ~skipped
              /\ rerror' = [type |-> "RuntimeError", arg |-> stage]
              /\ rpc' = "failed"
              /\ UNCHANGED <<stage_k, zona_k, executed>>
           \/ /\ executed' =
                    IF skipped THEN executed
                    ELSE Append(executed,
                                [zona |-> list_region[zona_k + 1],
                                 stage |-> stage,
                                 LR |-> PARAMS.temp_default_gradient,
                                 Pf |-> PARAMS.prcp_scaling_factor])
              /\ IF stage_k + 1 = Len(Stages)
                 THEN stage_k' = 0 /\ zona_k' = zona_k + 1 /\ rpc' = "params"
                 ELSE stage_k' = stage_k + 1 /\ zona_k' = zona_k /\ rpc' = rpc
              /\ UNCHANGED rerror
    /\ UNCHANGED <<list_region, datos_param, PARAMS>>
    /\ UNCHANGED <<cmpVars, valVars, stdVars, batchVars, diagVars, cluVars>>

\* the end of the loop of line 61
EndOfRun ==
    /\ rpc = "params"
    /\ zona_k = Len(list_region)
    /\ rpc' = "done"
    /\ UNCHANGED <<list_region, datos_param, zona_k, stage_k, PARAMS,
                   executed, rerror>>
    /\ UNCHANGED <<cmpVars, valVars, stdVars, batchVars, diagVars, cluVars>>

NextCru ==
    \/ SetParameters
    \/ RunStage
    \/ EndOfRun

SpecCru == InitCru /\ [][NextCru]_vars

-----------------------------------------------------------------------------
(* Properties of the aggregation (03_Multi_Dataset_Comparison_DA1.py)      *)

StatsComputed == ensemble_mean # None
AllSMBNumeric == \A i \in 1..3 : IsNum(smb_means[i]) /\ smb_means[i].d = 1
SMBSum        == smb_means[1].n + smb_means[2].n + smb_means[3].n
IsScenario ==
    /\ smb_means = <<F(-1100), F(-950), F(-1010)>>
    /\ gmb_value = F(-1000)
    /\ gmb_error = F(150)

\* C1: for any three numeric SMB scalars a, b, c the ensemble mean is exactly
\* (a + b + c) / 3, whatever the glacier counts and areas of the records.
C1_EnsembleMeanIsPlainMean ==
    (StatsComputed /\ AllSMBNumeric) =>
        /\ IsNum(ensemble_mean)
        /\ 3 * ensemble_mean.n = SMBSum * ensemble_mean.d

C1_Witness ==
    /\ pc = "done"
    /\ AllSMBNumeric
    /\ ensemble_mean.d = 3
    /\ smb_means[1] # smb_means[2]

\* sum over the three datasets of (x_i - ensemble_mean)^2, times
\* ensemble_mean.d^2
SqDevSumScaled ==
    LET dv(i) == smb_means[i].n * ensemble_mean.d - ensemble_mean.n
    IN  dv(1) * dv(1) + dv(2) * dv(2) + dv(3) * dv(3)

\* C2: the climate-forcing uncertainty is the sample standard deviation: its
\* square times 2 (= n - 1) is the sum of squared deviations from the
\* ensemble mean; {-1000, -1100, -1050} gives mean -1050 and SD 50.
C2_SampleStdDivisorTwo ==
    (StatsComputed /\ AllSMBNumeric) =>
        /\ IsReal(climate_uncertainty)
        /\ LET sq == FSquare(climate_uncertainty)
           IN  2 * sq.n * ensemble_mean.d * ensemble_mean.d
                  = SqDevSumScaled * sq.d
        /\ (smb_means = <<F(-1000), F(-1100), F(-1050)>> =>
               /\ ensemble_mean = F(-1050)
               /\ climate_uncertainty = F(50))

C2_Witness ==
    /\ pc = "done"
    /\ smb_means = <<F(-1000), F(-1100), F(-1050)>>
    /\ climate_uncertainty = F(50)

\* C3 as stated: in the end-to-end scenario the ensemble mean is -1020.0, the
\* range 150 and the sample standard deviation prints as 76.4.
C3_ScenarioSD764 ==
    (StatsComputed /\ IsScenario) =>
        /\ ensemble_mean = F(-1020)
        /\ smb_range = F(150)
        /\ Fmt1(climate_uncertainty) = 764

\* C3 (amended): in the end-to-end scenario the ensemble mean is -1020.0, the
\* range 150 and the sample standard deviation is sqrt(5700), printed 75.5.
C3_ScenarioSD755 ==
    (StatsComputed /\ IsScenario) =>
        /\ ensemble_mean = F(-1020)
        /\ smb_range = F(150)
        /\ FSquare(climate_uncertainty) = F(5700)
        /\ Fmt1(climate_uncertainty) = 755

C3_Witness ==
    /\ pc = "done"
    /\ IsScenario
    /\ Fmt1(climate_uncertainty) = 755

\* C4: with GMB exactly zero the percentage bias is never produced: the
\* BIASES block is not built, no figure is saved, and a script that got as
\* far as the summary ended with ZeroDivisionError; no percentage is ever
\* infinite or NaN because of a zero GMB.
C4_ZeroGMBRaises ==
    /\ (gmb_value = F(0)) =>
          /\ biases = <<>>
          /\ pc \notin {"savefig", "done"}
          /\ (pc = "failed" /\ error.type \notin {"KeyError", "ValueError"}
                 => error.type = "ZeroDivisionError")
    /\ \A i \in DOMAIN biases :
          (IsInf(biases[i].pct) \/ IsNaN(biases[i].pct)) =>
              (IsNaN(gmb_value) \/ IsNaN(smb_means[i]))

C4_Witness ==
    /\ pc = "failed"
    /\ error.type = "ZeroDivisionError"
    /\ gmb_value = F(0)
    /\ StatsComputed

\* C5: the bias of every dataset is SMB - GMB and its percentage is
\* (SMB - GMB) / GMB * 100; the scenario prints -100 (+10.0%), +50 (-5.0%),
\* -10 (+1.0%); with a negative GMB the percentage has the opposite sign.
C5_BiasAndPercentage ==
    (biases # <<>> /\ AllSMBNumeric /\ IsNum(gmb_value)) =>
        /\ gmb_value.n # 0
        /\ \A i \in 1..3 :
              LET diff == smb_means[i].n - gmb_value.n
                  b == biases[i]
              IN  /\ b.abs = F(diff)
                  /\ IsNum(b.pct)
                  /\ b.pct.n * gmb_value.n = 100 * diff * b.pct.d
                  /\ (gmb_value.n < 0 => Sign(b.pct.n) = -Sign(diff))
        /\ (IsScenario =>
               /\ [i \in 1..3 |-> Fmt1(biases[i].abs)] = <<-1000, 500, -100>>
               /\ [i \in 1..3 |-> Fmt1(biases[i].pct)] = <<100, -50, 10>>)

C5_Witness ==
    /\ pc = "done"
    /\ IsScenario
    /\ biases[1] = [abs |-> F(-100), pct |-> F(10)]
    /\ biases[2] = [abs |-> F(50), pct |-> F(-5)]

\* the checked fields of the record file of dataset ds that are absent, empty
\* or unparseable
DefectiveFields(ds) ==
    {l \in CheckedFields :
        ~ \E i \in 2..Len(files[ds]) :
            files[ds][i].label = l /\ files[ds][i].value.t = "num"}

HasDefect == \E ds \in 1..3 : DefectiveFields(ds) # {}

\* the record ds does not exist and its read has ended the script
ReadFailed(ds) == error.type = "FileNotFoundError" /\ error.arg = RecordNames[ds]

Loaded == /\ pc \notin {"read_cr2", "read_era5", "read_cru", "extract"}
          /\ \A ds \in 1..3 : ~ReadFailed(ds)

DataOf(ds) == IF ds = 1 THEN cr2_data ELSE IF ds = 2 THEN era5_data ELSE cru_data
ReadDone(ds) ==
    /\ pc \notin (IF ds = 1 THEN {"read_cr2"}
                  ELSE IF ds = 2 THEN {"read_cr2", "read_era5"}
                  ELSE {"read_cr2", "read_era5", "read_cru"})
    /\ \A j \in 1..ds : ~ReadFailed(j)

\* C10 as stated: a missing or malformed field of any of the three records
\* makes the load fail with an error naming the field; no NaN reaches the
\* aggregation.
C10_DefectFailsLoad ==
    (Loaded /\ HasDefect) =>
        /\ pc = "failed"
        /\ \E ds \in 1..3 : error.arg \in DefectiveFields(ds)
        /\ ~StatsComputed

\* C10 (amended): read_comparison_csv itself never fails: an unparseable value
\* is skipped (its label is absent from the mapping) and an empty value is
\* stored as NaN. A KeyError is raised afterwards exactly when a label the
\* script reads is absent (GMB and GMB_error of the CR2MET record, SMB and
\* n_g_oggm of each record), and it names the label alone; a defect of any
\* other field is never reported; a NaN SMB is passed on and makes the
\* ensemble mean and the climate-forcing uncertainty NaN.
C10_SilentSkipThenKeyError ==
    /\ \A ds \in 1..3 : ReadDone(ds) =>
          \A i \in 2..Len(files[ds]) :
              LET row == files[ds][i]
              IN  /\ row.value.t = "text" => row.label \notin DOMAIN DataOf(ds)
                  /\ row.value.t = "empty" =>
                        row.label \in DOMAIN DataOf(ds) /\ IsNaN(DataOf(ds)[row.label])
                  /\ row.value.t = "num" =>
                        row.label \in DOMAIN DataOf(ds)
                            /\ DataOf(ds)[row.label] = row.value.v
    /\ Loaded =>
          /\ (error.type = "KeyError") <=>
                (\E i \in 1..Len(Lookups) : LookupValue(i).k = "KeyError")
          /\ error.type = "KeyError" =>
                /\ pc = "failed"
                /\ error.arg \in {"GMB", "GMB_error", "SMB", "n_g_oggm"}
                /\ \E i \in 1..Len(Lookups) :
                      /\ Lookups[i][2] = error.arg
                      /\ Lookups[i][2] \notin DOMAIN DataOf(Lookups[i][1])
          /\ (absent_inputs = {} /\ \A i \in 1..Len(Lookups) :
                 Lookups[i][2] \notin DefectiveFields(Lookups[i][1])) =>
                error.type \in {"none", "ZeroDivisionError"}
    /\ (StatsComputed /\ \E i \in 1..3 : IsNaN(smb_means[i])) =>
          IsNaN(ensemble_mean) /\ IsNaN(climate_uncertainty)

C10_Witness ==
    /\ pc = "done"
    /\ HasDefect
    /\ \E ds \in 1..3 : "area_oggm" \in DefectiveFields(ds)
                          /\ "area_oggm" \notin DOMAIN DataOf(ds)

-----------------------------------------------------------------------------
(* Properties of the area-weighted reduction                               *)
(* (02_Andes_2000_2019_CR2_figura_2023.py)                                 *)

YearlyComputed == mb_mean # <<>>
SMBComputed    == smb_value # None
Glaciers       == 1..Len(mb_per_glacier)

\* the mass balance of every glacier in year column y (1-based)
Column(y) == [g \in Glaciers |-> mb_per_glacier[g][y]]

\* the distinct pairs <<values of a year column, per-year mean of that year>>
YearPairs == {<<Column(y), mb_mean[y]>> : y \in 1..NYears}

\* sum of value * weight, and of weight, over the positions in idx
WeightedSum(vals, w, idx) == SeqSum([j \in 1..Len(idx) |-> FMul(vals[idx[j]], w[idx[j]])])
WeightSum(w, idx) == SeqSum([j \in 1..Len(idx) |-> w[idx[j]]])

AllIdx(vals)   == [i \in 1..Len(vals) |-> i]
ValidIdx(vals) == SelectSeq(AllIdx(vals), LAMBDA i : IsNum(vals[i]))

\* r = sum(value_i * area_i) / sum(area_i) over the positions in idx
IsWeightedMean(r, vals, w, idx) ==
    /\ IsNum(r)
    /\ FMul(r, WeightSum(w, idx)) = WeightedSum(vals, w, idx)

\* C6: with no missing value and a positive total area, every per-year
\* reduction and the SMB of the record equal sum(value_i * area_i) / sum(area_i).
C6_AreaWeightedReducer ==
    /\ YearlyComputed =>
          \A c \in YearPairs :
              (\A g \in Glaciers : IsNum(c[1][g])) =>
                  IsWeightedMean(c[2], c[1], areas, AllIdx(areas))
    /\ (SMBComputed /\ \A g \in Glaciers : IsNum(mb_sim.mb_sim[g])) =>
          IsWeightedMean(smb_value, mb_sim.mb_sim, areas, AllIdx(areas))

C6_Witness ==
    /\ vpc = "compile"
    /\ Len(areas) >= 2
    /\ \A g \in Glaciers : \A y \in 1..NYears : IsNum(mb_per_glacier[g][y])
    /\ areas[1] # areas[2]
    /\ smb_value # NpMean(mb_sim.mb_sim)
    /\ mb_mean[1] # NpMean(Column(1))

\* C7 as stated: a glacier with a missing mass-balance value is left out of
\* numerator and denominator: the per-year mean and the SMB are the weighted
\* mean over the glaciers with a valid value, and are not NaN.
C7_NaNValueDropped ==
    /\ YearlyComputed =>
          \A y \in 1..NYears :
              ValidIdx(Column(y)) # <<>> =>
                  IsWeightedMean(mb_mean[y], Column(y), areas, ValidIdx(Column(y)))
    /\ (SMBComputed /\ ValidIdx(mb_sim.mb_sim) # <<>>) =>
          IsWeightedMean(smb_value, mb_sim.mb_sim, areas, ValidIdx(mb_sim.mb_sim))

OneNaNArea ==
    /\ area # <<>>
    /\ Cardinality({g \in 1..Len(area) : IsNaN(area[g])}) = 1

\* position in the run output of the glacier with identifier id
PosOf(id) == CHOOSE g \in 1..Len(rgi_id) : rgi_id[g] = id

\* the area in km2 of the glacier with identifier id, from the run output
InputAreaKm2(id) == NpTrueDiv(area[PosOf(id)], F(SquareMetresPerKm2))

\* C8: with exactly one NaN area that glacier is dropped before weighting:
\* it has no row in the area table or the per-glacier table and no weight,
\* every remaining row keeps the area of its own glacier, and the reductions
\* are the area-weighted means of the remaining (value, area) pairs.
C8_NaNAreaDropped ==
    OneNaNArea =>
        /\ vpc \notin {"load", "area"} =>
              /\ max_n = Len(area) - 1
              /\ Len(ID_area) = max_n /\ Len(ID_rgi_id) = max_n
              /\ \A i \in 1..max_n :
                    /\ ~IsNaN(area[PosOf(ID_rgi_id[i])])
                    /\ ID_area[i].id = ID_rgi_id[i]
                    /\ ID_area[i].area = area[PosOf(ID_rgi_id[i])]
              /\ \A i, j \in 1..max_n :
                    i < j => PosOf(ID_rgi_id[i]) < PosOf(ID_rgi_id[j])
        /\ vpc \notin {"load", "area", "mass_balance"} =>
              /\ Len(mb_per_glacier) = max_n
              /\ lista = ID_rgi_id
              /\ mb_per_glacier_id.rgi_id = ID_rgi_id
        /\ YearlyComputed =>
              /\ Len(areas) = max_n
              /\ \A i \in 1..max_n : areas[i] = InputAreaKm2(lista[i])
              /\ \A c \in YearPairs :
                    (\A g \in Glaciers : IsNum(c[1][g])) =>
                        IsWeightedMean(c[2], c[1],
                                       [i \in 1..max_n |-> InputAreaKm2(lista[i])],
                                       AllIdx(lista))
        /\ (SMBComputed /\ \A g \in Glaciers : IsNum(mb_sim.mb_sim[g])) =>
              /\ mb_sim.rgiid = ID_rgi_id
              /\ IsWeightedMean(smb_value, mb_sim.mb_sim,
                                [i \in 1..max_n |-> InputAreaKm2(mb_sim.rgiid[i])],
                                AllIdx(lista))

C8_Witness ==
    /\ OneNaNArea
    /\ IsNaN(area[1])
    /\ vpc = "compile"
    /\ max_n >= 2
    /\ areas[1] # areas[2]
    /\ IsNum(smb_value)
    /\ mb_sim.mb_sim[1] # mb_sim.mb_sim[2]

\* C9 as stated: the column removed before the mean across years is the
\* identifier column, and every year column is kept.
C9_IdColumnExcluded ==
    mb_sim.columns # <<>> => mb_sim.columns = YearColumns

-----------------------------------------------------------------------------
(* Claims about the aggregation of the three records (continued)           *)

\* C11 as stated: the three records are combined only when they agree on
\* what they describe: whenever the ensemble statistics exist, the GMB and
\* the GMB_error of the ERA5 and CRU records equal those of the CR2MET record.
C11_SameIdentityBeforeAggregation ==
    StatsComputed =>
        \A ds \in 1..3 : \A l \in {"GMB", "GMB_error"} :
            GetItem(DataOf(ds), l) = GetItem(cr2_data, l)

\* C13: the range is max(SMB) - min(SMB) of the three dataset values; it is
\* never negative, it is zero exactly when the three values are equal, and
\* it is 100 for {-1000, -1100, -1050}.
C13_RangeIsMaxMinusMin ==
    (StatsComputed /\ AllSMBNumeric) =>
        LET vals == {smb_means[i].n : i \in 1..3}
            mx == CHOOSE v \in vals : \A w \in vals : w <= v
            mn == CHOOSE v \in vals : \A w \in vals : v <= w
        IN  /\ smb_range = F(mx - mn)
            /\ smb_range.n >= 0
            /\ (smb_range.n = 0) <=> (Cardinality(vals) = 1)
            /\ vals = {-1000, -1100, -1050} => smb_range = F(100)

C13_Witness ==
    /\ pc = "done"
    /\ smb_means = <<F(-1000), F(-1100), F(-1050)>>
    /\ smb_range = F(100)

VariabilityComputed == smb_stds[1] # None
Reported == report # NoReport
Ones(n) == [i \in 1..n |-> F(1)]

\* s is the sample standard deviation (divisor n - 1) of the entries of m
\* at the positions idx (at least two)
IsSampleStd(s, m, idx) ==
    LET n  == Len(idx)
        sm == SeqSum([j \in 1..n |-> m[idx[j]]])
        sq == SeqSum([j \in 1..n |-> FMul(m[idx[j]], m[idx[j]])])
    IN  /\ IsNum(s) /\ s.n >= 0
        /\ FMul(FMul(s, s), F(n * (n - 1))) = FSub(FMul(sq, F(n)), FMul(sm, sm))

\* w is the arithmetic mean of the three per-dataset standard deviations
IsMeanOfStds(w) ==
    IF \A ds \in 1..3 : IsNum(smb_stds[ds])
    THEN FMul(w, F(3)) = FAdd(FAdd(smb_stds[1], smb_stds[2]), smb_stds[3])
    ELSE IsNaN(w)

\* C14: the standard deviation of a dataset is taken in two steps: the mean
\* of every glacier over all its simulated years, then the sample standard
\* deviation of these means over the glaciers; the average intra-dataset
\* variability that is printed and plotted is the arithmetic mean of the
\* three standard deviations.
C14_TwoStepVariability ==
    /\ VariabilityComputed =>
          \A ds \in 1..3 :
              LET rows == mb_files[ds].mb
                  mm   == glacier_means[ds]
                  vm   == ValidIdx(mm)
              IN  /\ Len(mm) = Len(rows)
                  /\ \A g \in 1..Len(rows) :
                        IF ValidIdx(rows[g]) = <<>> THEN IsNaN(mm[g])
                        ELSE IsWeightedMean(mm[g], rows[g], Ones(NYears),
                                            ValidIdx(rows[g]))
                  /\ IF Len(vm) < 2 THEN IsNaN(smb_stds[ds])
                     ELSE IsSampleStd(smb_stds[ds], mm, vm)
    /\ Reported => IsMeanOfStds(report.within)
    /\ uncertainty_vals[2] # None => IsMeanOfStds(uncertainty_vals[2])
    /\ breakdown[2] # None => IsMeanOfStds(breakdown[2])

\* three glaciers whose years differ from their mean: the deviation over all
\* glacier-year values would not be 300
C14_Witness ==
    /\ pc = "done"
    /\ \E g \in 1..Len(mb_files[1].mb) :
          mb_files[1].mb[g][1] # mb_files[1].mb[g][2]
    /\ smb_stds = <<F(300), F(200), F(200)>>
    /\ Len(glacier_means[3]) = 4
    /\ report.within = Norm(700, 3)
    /\ breakdown[2] = Norm(700, 3)

\* C16: three components are reported, each as its own value: the geodetic
\* error of the record, the mean of the three per-dataset standard
\* deviations, the sample standard deviation of the three SMB values; the
\* value after the +/- of the ensemble line is the third one alone, and no
\* sum or other combination of the components is reported.
C16_ThreeSeparateComponents ==
    LET comps == <<gmb_error, report.within, climate_uncertainty>>
    IN  /\ Reported =>
              /\ report.observed[2] = gmb_error
              /\ IsMeanOfStds(report.within)
              /\ report.between = climate_uncertainty
              /\ report.ensemble = <<ensemble_mean, climate_uncertainty>>
              /\ \A ds \in 1..3 : report.datasets[ds][2] = smb_stds[ds]
        /\ uncertainty_vals[1] # None => uncertainty_vals = comps
        /\ breakdown[1] # None => breakdown = comps

C16_Witness ==
    /\ pc = "done"
    /\ IsScenario
    /\ smb_stds = <<F(300), F(200), F(200)>>
    /\ breakdown = <<F(150), Norm(700, 3), climate_uncertainty>>
    /\ Fmt1(report.ensemble[2]) = 755
    /\ report.ensemble[2] # FAdd(F(150), Norm(700, 3))

AllSixLoaded ==
    /\ absent_inputs = {}
    /\ \A ds \in 1..3 : /\ DataOf(ds) = read_comparison_csv(files[ds])
                        /\ mb_tables[ds] = mb_files[ds]

\* C20: the ensemble statistics are computed only in a step that starts with
\* the three records and the three per-glacier tables loaded; when one of the
\* six files cannot be loaded, or a record lacks a field that is read, the
\* script ends there: no statistic is computed or printed, no figure saved.
C20_LoadBeforeStatistics ==
    /\ [](StatsComputed => AllSixLoaded)
    /\ []((absent_inputs # {} \/ error.type \in {"FileNotFoundError", "KeyError"})
            => /\ ~StatsComputed /\ ~Reported /\ figures = {}
               /\ pc # "done")
    /\ [][(StatsComputed' /\ ~StatsComputed) => AllSixLoaded]_vars

C20_Witness ==
    /\ pc = "failed"
    /\ absent_inputs = {5}
    /\ error = [type |-> "FileNotFoundError", arg |-> "mb.csv"]
    /\ mb_tables[1] = mb_files[1]
    /\ cru_data = read_comparison_csv(files[3])
    /\ ~StatsComputed /\ figures = {}

-----------------------------------------------------------------------------
(* Claims about the record of the cluster                                  *)
(* (02_Andes_2000_2019_CR2_figura_2023.py, continued)                      *)

\* the value written under the label l
Written(l) ==
    LET i == CHOOSE j \in 1..Len(comp_gmb_smb) : comp_gmb_smb[j].label = l
    IN  comp_gmb_smb[i].value

\* C12 as stated: the SMB of the record is the reduction over time of the
\* per-year area-weighted series over the simulated years of that series.
C12_SMBIsTimeMeanOfYearlySeries ==
    vpc = "written" => Written("SMB") = NpMean(mb_mean)

\* C17: every (value, label) row of the record is read back under its label
\* with the number that was written; the line of column names is the only
\* line that read_comparison_csv leaves out.
C17_RecordRoundTrip ==
    vpc = "read" =>
        /\ Len(files[1]) = Len(comp_gmb_smb) + 1
        /\ DOMAIN cr2_data = {RecordFields[i] : i \in 1..Len(RecordFields)}
        /\ \A i \in 1..Len(comp_gmb_smb) :
              /\ comp_gmb_smb[i].label = RecordFields[i]
              /\ IsNum(comp_gmb_smb[i].value)
              /\ cr2_data[comp_gmb_smb[i].label] = comp_gmb_smb[i].value

C17_Witness ==
    /\ vpc = "read"
    /\ cr2_data["GMB"] = gmb_value_02 /\ gmb_value_02.d # 1
    /\ cr2_data["SMB"] = smb_value
    /\ cr2_data["n_g_oggm"] = F(2)
    /\ cr2_data["por_area_oggm"] = Norm(29167, 1000)

\* the exchanges of two positions of 1..n; every reordering of the glaciers
\* is a sequence of such exchanges, and every reordered cluster is itself a
\* cluster of this model
Swaps(n) ==
    {[i \in 1..n |-> IF i = a THEN b ELSE IF i = b THEN a ELSE i] :
        a \in 1..n, b \in 1..n}
Permuted(s, p) == [i \in 1..Len(s) |-> s[p[i]]]

\* C18: reordering the glaciers, values and areas by the same permutation,
\* changes neither the area-weighted mean of any year nor the SMB.
C18_OrderInvariant ==
    (vpc = "compile" /\ SMBComputed) =>
        /\ \A c \in YearPairs : \A p \in Swaps(Len(areas)) :
               NpAverage(Permuted(c[1], p), Permuted(areas, p)) = c[2]
        /\ \A p \in Swaps(Len(areas)) :
               PandasSum(MbMmPon(Permuted(mb_sim.mb_sim, p),
                                 Permuted(areas, p))) = smb_value

C18_Witness ==
    /\ vpc = "compile"
    /\ Len(areas) = 3
    /\ areas[1] # areas[2]
    /\ mb_sim.mb_sim[1] # mb_sim.mb_sim[2] /\ IsNum(mb_sim.mb_sim[1])
    /\ IsNum(mb_sim.mb_sim[2])
    /\ IsNum(mb_mean[1]) /\ mb_mean[1] # NpMean(Column(1))

\* positions of the glaciers of the run output that have an area
KeptPositions ==
    SelectSeq([i \in 1..Len(rgi_id) |-> i], LAMBDA i : ~IsNaN(area[i]))

\* C19: n_g_oggm is the number of glaciers of the run output that have an
\* area, area_oggm the sum of the areas of exactly these glaciers in km2 (to
\* the three decimals of the record), and the mass-balance table and the
\* area weights hold exactly these glaciers, in the same order.
C19_CountsAndAlignment ==
    vpc = "written" =>
        LET kept == KeptPositions
            n == Len(kept)
        IN  /\ Written("n_g_oggm") = F(n)
            /\ Written("area_oggm") =
                  Round3(NpTrueDiv(SeqSum([j \in 1..n |-> area[kept[j]]]),
                                   F(SquareMetresPerKm2)))
            /\ Len(mb_per_glacier) = n /\ Len(areas) = n
            /\ Len(mb_per_glacier_id.rgi_id) = n
            /\ \A j \in 1..n :
                  /\ mb_per_glacier_id.rgi_id[j] = rgi_id[kept[j]]
                  /\ lista[j] = rgi_id[kept[j]]
                  /\ FMul(areas[j], F(SquareMetresPerKm2)) = area[kept[j]]

C19_Witness ==
    /\ vpc = "written"
    /\ IsNaN(area[2])
    /\ Written("n_g_oggm") = F(2)
    /\ Written("area_oggm") = Norm(7, 2)
    /\ mb_per_glacier_id.rgi_id = <<1, 3>>
    /\ areas = <<F(1), Norm(5, 2)>>

-----------------------------------------------------------------------------
(* Claims about batch_process_all_glaciers (oggm_cr2met_chile.py)           *)

SeqRange(s) == {s[i] : i \in 1..Len(s)}

\* the identifiers of the glaciers get_chilean_glaciers returns
ChileanIds ==
    {get_chilean_glaciers(rgi_df)[i].RGIId :
        i \in 1..Len(get_chilean_glaciers(rgi_df))}

\* C21 as stated: when the batch function returns, every glacier returned by
\* get_chilean_glaciers has a glacier directory and was passed to
\* process_glacier_with_cr2met, whatever the number of glaciers found.
C21_AllChileanGlaciersProcessed ==
    bpc = "done" =>
        /\ ChileanIds \subseteq SeqRange(batch_gdirs)
        /\ ChileanIds \subseteq SeqRange(passed)

\* the glacier directories among the first n for which neither the climate
\* extraction nor the mass-balance task failed, in their original order
WithoutError(n) ==
    SelectSeq(SubSeq(batch_gdirs, 1, n),
              LAMBDA g : g \notin printed_errors /\ g \notin task_log)

\* C25 as stated: no exception leaves process_glacier_with_cr2met, every
\* glacier directory is handled, and the list of successful directories
\* holds exactly the directories processed without error, in their original
\* order and each at most once.
C25_FailureIsolated ==
    /\ bpc # "failed"
    /\ passed = SubSeq(batch_gdirs, 1, batch_idx)
    /\ successful_gdirs = WithoutError(batch_idx)
    /\ Len(successful_gdirs) <= Len(batch_gdirs)
    /\ bpc = "done" => (batch_idx = Len(batch_gdirs) /\ returned = WithoutError(batch_idx))

-----------------------------------------------------------------------------
(* Claims about diagnostic_check.py                                         *)

FailedIds == {failed_glaciers[i].rgi_id : i \in 1..Len(failed_glaciers)}
Visited == {diag_gdirs[i] : i \in 1..diag_i}
StatusKeys == DOMAIN StatusZero

\* C26: after any number of iterations of the status loop every visited
\* glacier whose check completed is in exactly one of the two lists, a
\* glacier whose check raised is in neither, the successful list is as long
\* as status['has_diagnostics'], no counter and no list is larger than the
\* number of glaciers visited, and an iteration whose check raises changes
\* no counter.
C26_StatusBookkeeping ==
    /\ [](/\ \A g \in Visited \ check_raised :
                (g \in SeqRange(successful_glaciers)) # (g \in FailedIds)
          /\ \A g \in check_raised :
                g \notin SeqRange(successful_glaciers) /\ g \notin FailedIds
          /\ SeqRange(successful_glaciers) \cup FailedIds \subseteq Visited
          /\ Cardinality(SeqRange(successful_glaciers)) = Len(successful_glaciers)
          /\ Cardinality(FailedIds) = Len(failed_glaciers)
          /\ Len(successful_glaciers) = status.has_diagnostics
          /\ Len(successful_glaciers) + Len(failed_glaciers) <= diag_i
          /\ \A k \in StatusKeys : status[k] <= diag_i - Cardinality(check_raised))
    /\ [][check_raised' # check_raised => status' = status]_vars

C26_Witness ==
    /\ dpc = "loop" /\ diag_i = 3
    /\ check_raised = {2}
    /\ successful_glaciers = <<3>>
    /\ FailedIds = {1}
    /\ status.has_climate = 2 /\ status.has_diagnostics = 1
    /\ status.has_fl_diagnostics = 0

DirsLoaded == dpc \notin {"idle", "load", "exit"}

-----------------------------------------------------------------------------
(* Claims about 00_Diagnostic_Check_Clusters.py                             *)

\* C28: the clusters are visited once each in list order; a cluster without
\* glaciers or without output directory has no percentage computed and no
\* initialization attempted; a percentage is only computed with
\* n_glaciers > 0; no exception ends the script, which always reaches
\* DIAGNOSTIC COMPLETE with every cluster visited.
C28_EveryClusterChecked ==
    /\ [](/\ visited = SubSeq(clusters, 1, Len(visited))
          /\ Len(visited) \in {cluster_k, cluster_k + 1}
          /\ (cluster_n_glaciers = 0 \/ output_dir_exists # "yes") =>
                (simulated_pct = None /\ init_result = "none")
          /\ simulated_pct # None => cluster_n_glaciers > 0
          /\ cpc # "failed" /\ cerror = NoError
          /\ cpc = "complete" => visited = clusters)
    /\ <>(cpc = "complete")

C28_Witness ==
    /\ cpc = "complete"
    /\ visited = clusters
    /\ n_caught = 3
    /\ init_result = "raised"
    /\ simulated_pct = F(50)

-----------------------------------------------------------------------------
(* Claims about 01a_Andes_2000_2019_CRU_2023.py                             *)

\* the row of the parameter file of cluster z
OwnRow(z) ==
    LET rows == SelectSeq(datos_param, LAMBDA row : row.Cluster = z)
    IN  IF Len(rows) = 0 THEN [Cluster |-> z, LR |-> 0, Pf |-> 0]
        ELSE rows[1]

\* C29: every workflow stage that runs, runs with the lapse rate and the
\* precipitation factor of its own cluster in the global configuration; the
\* stages of a cluster run in the fixed order, all nine of a cluster before
\* the first of the next cluster, and the clusters in the order of the run
\* list.
C29_OwnParametersBeforeTasks ==
    /\ \A i \in 1..Len(executed) :
          /\ executed[i].zona = list_region[((i - 1) \div Len(Stages)) + 1]
          /\ executed[i].stage = Stages[((i - 1) % Len(Stages)) + 1]
          /\ executed[i].LR = OwnRow(executed[i].zona).LR
          /\ executed[i].Pf = OwnRow(executed[i].zona).Pf
    /\ Len(executed) = zona_k * Len(Stages) + stage_k
    /\ rpc = "run" =>
          /\ PARAMS.temp_default_gradient = OwnRow(list_region[zona_k + 1]).LR
          /\ PARAMS.prcp_scaling_factor = OwnRow(list_region[zona_k + 1]).Pf

C29_Witness ==
    /\ rpc = "done"
    /\ list_region = FullRegions
    /\ Len(executed) = Len(FullRegions) * Len(Stages)
    /\ executed[1].zona = "OT3" /\ executed[1].LR = -56
    /\ executed[Len(Stages) + 1].zona = "DA1"
    /\ executed[Len(Stages) + 1].stage = "init_glacier_directories"
    /\ executed[Len(Stages) + 1].LR = -57
    /\ executed[Len(Stages) + 1].Pf = 14
    /\ datos_param[1].Cluster = "WA6"

-----------------------------------------------------------------------------
(* Claims about the comparison with the geodetic mass balance               *)
(* (02_Andes_2000_2019_CR2_figura_2023.py)                                  *)

FirstYear == 2000      \* years = np.arange(2000, 2022)
PeriodStart == 2000    \* '2000-01-01_2020-01-01'
PeriodEnd == 2020

\* positions of the year columns of the simulated years inside the geodetic
\* reference period, 2000 to 2019
PeriodPositions ==
    SelectSeq([y \in 1..NYears |-> y],
              LAMBDA y : /\ FirstYear + y - 1 >= PeriodStart
                         /\ FirstYear + y - 1 < PeriodEnd)

\* C22 as stated: the per-glacier mean that enters the SMB is the mean over
\* exactly the simulated years 2000 to 2019.
C22_SMBOverReferencePeriod ==
    SMBComputed =>
        \A g \in Glaciers :
            mb_sim.mb_sim[g] = PandasRowMean(mb_per_glacier[g], PeriodPositions)

\* the entries of the geodetic table that enter the GMB of the cluster
SelectedEntries == GmbMaipo(geodetic, SeqRange(ID_rgi_id))

\* C23 as stated: the glaciers that carry weight in the SMB are the glaciers
\* that carry weight in the GMB, also when the geodetic table lacks the entry
\* of a simulated glacier.
C23_SameGlaciersInGMBAndSMB ==
    SMBComputed =>
        SeqRange(mb_sim.rgiid) =
            {SelectedEntries[i].rgiid : i \in 1..Len(SelectedEntries)}

\* r is the mean of vals with the weights a[i] / sum(a), and lies between
\* the smallest and the largest of vals
IsLinearAreaMean(r, vals, a) ==
    /\ IsNum(r)
    /\ FMul(r, SeqSum(a)) = SeqSum([i \in 1..Len(vals) |-> FMul(vals[i], a[i])])
    /\ ~FLess(r, SeqMin(vals))
    /\ ~FLess(SeqMax(vals), r)

\* C24: when the geodetic comparison has run, GMB and GMB_error are the
\* means of the per-glacier geodetic values and errors in mm with the
\* weights area_i / sum(area), which are not negative and sum to 1, and so
\* lie between the smallest and the largest per-glacier value; the errors
\* are combined linearly.
C24_GMBIsLinearAreaMean ==
    vpc = "smb" =>
        LET sel == SelectedEntries
            n == Len(sel)
            a == [i \in 1..n |-> NpTrueDiv(sel[i].area, F(SquareMetresPerKm2))]
            total == SeqSum(a)
            w == [i \in 1..n |-> NpTrueDiv(a[i], total)]
            mm == [i \in 1..n |-> FMul(sel[i].dmdtda, F(1000))]
            err == [i \in 1..n |-> FMul(sel[i].err_dmdtda, F(1000))]
        IN  /\ n >= 1
            /\ \A i \in 1..n : IsNum(w[i]) /\ w[i].n >= 0
            /\ SeqSum(w) = F(1)
            /\ IsLinearAreaMean(gmb_value_02, mm, a)
            /\ IsLinearAreaMean(gmb_error_02, err, a)

C24_Witness ==
    /\ vpc = "smb"
    /\ Len(SelectedEntries) = 3
    /\ gmb_value_02 = Norm(-1750, 3)
    /\ gmb_error_02 = Norm(350, 3)
    /\ FLess(F(-750), gmb_value_02) /\ FLess(gmb_value_02, F(-250))

====
